---- MODULE Spec2Model ----
(***************************************************************************)
(* ATS-Scan: the resume analysis and scoring engine.                       *)
(*                                                                         *)
(* Modelling conventions.                                                  *)
(*  - A character is a one-character string; the two non-ASCII bullet      *)
(*    glyphs of the source are the atoms "BULLET" (U+2022) and "MIDDOT"    *)
(*    (U+00B7).  A word is a tuple of characters.  A text is a sequence of *)
(*    runs [w |-> word, n |-> count]: word w repeated n times; the words   *)
(*    of a text are separated by single spaces.  The empty string is one   *)
(*    empty word, " " is two empty words.                                  *)
(*  - A JavaScript value is a record tagged by t: "num" (h = the value in  *)
(*    halves, so 72.5 is h = 145), "nan", "undef", "null", "bool", "str"   *)
(*    (s = tuple of characters), "arr" (a = sequence of values), "obj"     *)
(*    (o = record of the fields the program reads, absent ones Undef).     *)
(*  - Arithmetic on scores is exact; Math.round is floor(x + 1/2).         *)
(***************************************************************************)
EXTENDS Bags, FiniteSets, Integers, Sequences, TLC

VARIABLES
  pc,               \* position of the running operation
  entry,            \* the operation that was invoked
  apiKey,           \* OPENROUTER_API_KEY is configured
  resumeText,       \* the resume text under analysis
  jobDescription,   \* the job description (a text), or NoJob
  call,             \* the AI call in flight, or NoCall
  formatAnalysis,   \* local of the analyzer
  contentAnalysis,  \* local of the analyzer
  keywordAnalysis,  \* local of the analyzer
  extracted,        \* result of the extract* operation invoked
  report,           \* value the analyzer returned, or NoValue
  raised,           \* the analyzer raised an exception
  formatCalls,      \* the reports analyzeFormat returned for resumeText so far (history)
  settled,          \* how each AI call of the operation ended (history)
  jobTitle,         \* the jobTitle argument of generateInterviewQuestions, or Undef
  answered,         \* what the AI answered to the five extract calls of
                    \* generateInterviewQuestions, or NoValue
  profile,          \* locals of generateInterviewQuestions: the extracted lists
  fallbackProfile,  \* locals of generateFallbackInterviewQuestions: the extracted lists
  aiQuestions,      \* the questions the AI returned (history)
  questions,        \* the questions generateInterviewQuestions returned
  dashboard,        \* what the dashboard shows for the analysis it fetched, or NoValue
  other,            \* a second request for the same resume that is handled at the same
                    \* time: its route, its position and what it read, or NoValue
  route,            \* the HTTP route handling the request, or "none"
  req,              \* the parameters of the HTTP request
  resumes,          \* table resumes: id -> original text
  analyses,         \* table analyses: sequence of rows
  existingAnalysis, \* local of the /analyze handler
  res               \* the HTTP response sent, or NoResponse

analyzerVars == <<entry, resumeText, jobDescription, formatAnalysis, contentAnalysis,
                  keywordAnalysis, report, raised, formatCalls>>
routeVars == <<route, req, resumes, analyses, existingAnalysis, res>>
interviewVars == <<jobTitle, answered, profile, fallbackProfile, aiQuestions, questions>>
clientVars == <<dashboard, other>>
vars == <<pc, apiKey, call, extracted, settled, analyzerVars, interviewVars, routeVars,
          clientVars>>

----------------------------------------------------------------------------
(* Characters and words *)

UpperCase == <<"A","B","C","D","E","F","G","H","I","J","K","L","M",
               "N","O","P","Q","R","S","T","U","V","W","X","Y","Z">>
LowerCase == <<"a","b","c","d","e","f","g","h","i","j","k","l","m",
               "n","o","p","q","r","s","t","u","v","w","x","y","z">>
Range(f) == {f[i] : i \in DOMAIN f}

IsUpper(c) == c \in Range(UpperCase)
IsLower(c) == c \in Range(LowerCase)
IsDigit(c) == c \in {"0","1","2","3","4","5","6","7","8","9"}
\* \w of the regular expressions
IsWordChar(c) == IsUpper(c) \/ IsLower(c) \/ IsDigit(c) \/ c = "_"

toLowerWord(w) ==
  [i \in DOMAIN w |->
     IF IsUpper(w[i]) THEN LowerCase[CHOOSE j \in DOMAIN UpperCase : UpperCase[j] = w[i]]
     ELSE w[i]]

\* String.prototype.toLowerCase on a text
toLowerCase(text) == [i \in DOMAIN text |-> [w |-> toLowerWord(text[i].w), n |-> text[i].n]]

IsPrefix(p, w) == Len(p) <= Len(w) /\ SubSeq(w, 1, Len(p)) = p
IsSuffix(p, w) == Len(p) <= Len(w) /\ SubSeq(w, Len(w) - Len(p) + 1, Len(w)) = p
IsSubstr(p, w) == \E i \in 1..(Len(w) - Len(p) + 1) : SubSeq(w, i, i + Len(p) - 1) = p

Min(a, b) == IF a <= b THEN a ELSE b
Max(a, b) == IF a >= b THEN a ELSE b

RECURSIVE SumSeq(_)
SumSeq(s) == IF s = <<>> THEN 0 ELSE Head(s) + SumSeq(Tail(s))

\* the words of a text, each run cut down to at most cap copies
RECURSIVE Expand(_, _)
Expand(text, cap) ==
  IF text = <<>> THEN <<>>
  ELSE [i \in 1..Min(Head(text).n, cap) |-> Head(text).w] \o Expand(Tail(text), cap)

\* the pieces of a character sequence between single spaces
RECURSIVE SplitSpace(_)
SplitSpace(s) ==
  IF \E i \in DOMAIN s : s[i] = " "
  THEN LET i == CHOOSE j \in DOMAIN s : s[j] = " " /\ \A k \in 1..(j-1) : s[k] # " "
       IN <<SubSeq(s, 1, i - 1)>> \o SplitSpace(SubSeq(s, i + 1, Len(s)))
  ELSE <<s>>

\* String.prototype.includes: needle (characters, possibly with spaces) occurs in text
includes(text, needle) ==
  LET occurs(parts, k, words) ==
        IF k = 1
        THEN \E i \in DOMAIN words : IsSubstr(needle, words[i])
        ELSE \E i \in 1..(Len(words) - k + 1) :
               /\ IsSuffix(parts[1], words[i])
               /\ \A j \in 2..(k-1) : words[i + j - 1] = parts[j]
               /\ IsPrefix(parts[k], words[i + k - 1])
  IN occurs(SplitSpace(needle), Len(SplitSpace(needle)),
            Expand(text, Len(SplitSpace(needle))))

\* text.split(/\s+/).length
wordCount(text) == SumSeq([i \in DOMAIN text |-> text[i].n])

\* text.trim().length === 0
IsBlank(text) == \A i \in DOMAIN text : text[i].w = <<>>

\* (text.match(/[\u2022\u00b7-]/g) || []).length
bulletCountOf(text) ==
  SumSeq([i \in DOMAIN text |->
            text[i].n * Cardinality({j \in DOMAIN text[i].w :
                                       text[i].w[j] \in {"BULLET", "MIDDOT", "-"}})])

\* /\S+@\S+\.\S+/.test(text): the match lies inside one word
testEmail(text) ==
  \E r \in DOMAIN text :
    LET w == text[r].w
    IN \E i \in DOMAIN w : \E j \in DOMAIN w :
         w[i] = "@" /\ i >= 2 /\ w[j] = "." /\ j >= i + 2 /\ j < Len(w)

\* /\d{3}[-.]?\d{3}[-.]?\d{4}/.test(text): the match lies inside one word
testPhone(text) ==
  \E r \in DOMAIN text :
    LET w == text[r].w
        DigitsAt(i, k) == i >= 1 /\ i + k - 1 <= Len(w) /\ \A j \in i..(i + k - 1) : IsDigit(w[j])
        SepAt(i) == i >= 1 /\ i <= Len(w) /\ w[i] \in {"-", "."}
    IN \E i \in DOMAIN w :
         /\ DigitsAt(i, 3)
         /\ \E s1 \in {0, 1} : \E s2 \in {0, 1} :
              /\ (s1 = 1 => SepAt(i + 3))
              /\ DigitsAt(i + 3 + s1, 3)
              /\ (s2 = 1 => SepAt(i + 6 + s1))
              /\ DigitsAt(i + 6 + s1 + s2, 4)

----------------------------------------------------------------------------
(* Inputs: resume texts and job descriptions *)

Run(w, n) == IF n = 0 THEN <<>> ELSE <<[w |-> w, n |-> n]>>

\* the text of a sequence of words
TextOf(words) == [i \in DOMAIN words |-> [w |-> words[i], n |-> 1]]

EmptyText == <<[w |-> <<>>, n |-> 1]>>
SpaceText == <<[w |-> <<>>, n |-> 2]>>

SectionHeaders == <<<<"E","d","u","c","a","t","i","o","n">>, <<"S","k","i","l","l","s">>, <<"E","X","P","E","R","I","E","N","C","E">>, <<"S","u","m","m","a","r","y">>>>

MakeResume(ns, contact, quantified, nb, skill, nf) ==
     TextOf(SubSeq(SectionHeaders, 1, ns))
  \o (IF contact THEN TextOf(<<<<"j","a","n","e","@","m","a","i","l",".","c","o","m">>, <<"5","5","5","-","1","2","3","-","4","5","6","7">>>>) ELSE <<>>)
  \o Run(<<"-">>, nb)
  \o (IF quantified THEN TextOf(<<<<"i","m","p","r","o","v","e","d">>, <<"b","y">>, <<"3","0","%">>>>) ELSE <<>>)
  \o (IF skill THEN TextOf(<<<<"R","e","a","c","t">>>>) ELSE <<>>)
  \o Run(<<"l","o","r","e","m">>, nf)

\* resumes with 2 or 4 section headers (contact details with 4), with or without a
\* quantified achievement and a skill, with 0 or 5 bullet lines and 0 to 795 filler
\* words, and the two blank texts
ResumeTexts ==
  {EmptyText, SpaceText} \cup
  { MakeResume(ns, ns = 4, quantified, nb, quantified, nf) :
      ns \in {2, 4}, quantified \in BOOLEAN, nb \in {0, 5}, nf \in {0, 290, 795} }
  \cup {TextOf(<<<<"T","e","a","m">>, <<"l","e","a","d">>, <<"R","e","a","c","t">>>>)}

NoJob == <<>>

JobTexts ==
  { TextOf(<<<<"R","e","a","c","t">>, <<"d","e","v","e","l","o","p","e","r">>>>),
    TextOf(<<<<"w","e">>, <<"n","e","e","d">>, <<"j","a","v","a">>>>),
    TextOf(<<<<"g","o">>>>),
    TextOf(<<<<"d","o","c","k","e","r">>, <<"k","u","b","e","r","n","e","t","e","s">>, <<"p","y","t","h","o","n">>, <<"m","o","n","g","o","d","b">>, <<"l","e","a","d","e","r","s","h","i","p">>,
             <<"s","e","c","u","r","i","t","y">>, <<"t","e","s","t","i","n","g">>, <<"a","g","i","l","e">>, <<"s","c","r","u","m">>, <<"t","y","p","e","s","c","r","i","p","t">>,
             <<"p","o","s","t","g","r","e","s","q","l">>, <<"R","e","a","c","t">>>>) }

----------------------------------------------------------------------------
(* JavaScript values *)

Undef == [t |-> "undef"]
Null == [t |-> "null"]
NaN == [t |-> "nan"]
Num(i) == [t |-> "num", h |-> 2 * i]
NumHalves(h) == [t |-> "num", h |-> h]
Str(w) == [t |-> "str", s |-> w]
Arr(a) == [t |-> "arr", a |-> a]

\* an object with none of the fields the program reads
EmptyObj ==
  [contentScore |-> Undef, improvements |-> Undef, sectionCompleteness |-> Undef,
   keywordMatches |-> Undef, missingKeywords |-> Undef, keywordScore |-> Undef,
   improvementSuggestions |-> Undef, questions |-> Undef]
Obj(o) == [t |-> "obj", o |-> o]

IsNum(v) == v.t = "num"
\* an integer in lo..hi
IsIntIn(v, lo, hi) == v.t = "num" /\ v.h % 2 = 0 /\ lo <= v.h \div 2 /\ v.h \div 2 <= hi

\* ToBoolean
Truthy(v) ==
  CASE v.t = "num" -> v.h # 0
    [] v.t = "bool" -> v.b
    [] v.t = "str" -> v.s # <<>>
    [] v.t \in {"arr", "obj", "row", "report"} -> TRUE
    [] OTHER -> FALSE

\* a || b
OrElse(a, b) == IF Truthy(a) THEN a ELSE b

\* ToNumber; the strings of the model are not numeric literals
ToNumber(v) ==
  CASE v.t = "num" -> v
    [] v.t = "null" -> Num(0)
    [] v.t = "bool" -> IF v.b THEN Num(1) ELSE Num(0)
    [] v.t = "str" -> IF v.s = <<>> THEN Num(0) ELSE NaN
    [] v.t = "arr" -> IF v.a = <<>> THEN Num(0)
                      ELSE IF Len(v.a) = 1 /\ v.a[1].t = "num" THEN v.a[1] ELSE NaN
    [] OTHER -> NaN

MathMin(a, b) ==
  LET least(x, y) == IF x.t = "nan" \/ y.t = "nan" THEN NaN ELSE NumHalves(Min(x.h, y.h))
  IN least(ToNumber(a), ToNumber(b))

MathMax(a, b) ==
  LET greatest(x, y) == IF x.t = "nan" \/ y.t = "nan" THEN NaN ELSE NumHalves(Max(x.h, y.h))
  IN greatest(ToNumber(a), ToNumber(b))

\* a + b on numbers
Plus(a, b) == IF a.t = "nan" \/ b.t = "nan" THEN NaN ELSE NumHalves(a.h + b.h)

\* Math.round(a*wa/100 + b*wb/100 + c*wc/100), weights in hundredths
WeightedRound(a, wa, b, wb, c, wc) ==
  IF a.t # "num" \/ b.t # "num" \/ c.t # "num" THEN NaN
  ELSE Num((a.h * wa + b.h * wb + c.h * wc + 100) \div 200)

\* Math.round((m / total) * 100) for integers m >= 0, total > 0
RoundPercent(m, total) == Num((200 * m + total) \div (2 * total))

\* v.length
Length(v) ==
  CASE v.t = "arr" -> Num(Len(v.a))
    [] v.t = "str" -> Num(Len(v.s))
    [] OTHER -> Undef

\* a > 0
GreaterThanZero(v) == ToNumber(v).t = "num" /\ ToNumber(v).h > 0

\* [...v] raises a TypeError unless v is iterable
IsIterable(v) == v.t \in {"arr", "str"}
\* [...v]
Spread(v) == IF v.t = "arr" THEN v.a ELSE [i \in DOMAIN v.s |-> Str(<<v.s[i]>>)]

\* v.name raises a TypeError on null and undefined
PropertyThrows(v) == v.t \in {"null", "undef"}
\* v.name
Get(v, name) == IF v.t = "obj" THEN v.o[name] ELSE Undef

----------------------------------------------------------------------------
(* PDFProcessor.analyzeFormat *)

sections == <<<<"e","x","p","e","r","i","e","n","c","e">>,
              <<"e","d","u","c","a","t","i","o","n">>,
              <<"s","k","i","l","l","s">>,
              <<"s","u","m","m","a","r","y">>,
              <<"c","o","n","t","a","c","t">>>>

\* analyzeFormat deducting 10 points for a short text
analyzeFormatShortPenalty(text) ==
  LET foundSections == {i \in DOMAIN sections : includes(toLowerCase(text), sections[i])}
      analysis(fewSections, fewBullets, noEmail, noPhone, tooShort, tooLong) ==
        [formatScore |->
           Num(Max(0, 100 - (IF fewSections THEN 20 ELSE 0) - (IF fewBullets THEN 15 ELSE 0)
                          - (IF noEmail THEN 10 ELSE 0) - (IF noPhone THEN 10 ELSE 0)
                          - (IF tooShort THEN 10 ELSE 0) - (IF tooLong THEN 10 ELSE 0))),
         issues |->
           (IF fewSections THEN <<"Missing essential sections">> ELSE <<>>)
        \o (IF fewBullets THEN <<"Few bullet points detected">> ELSE <<>>)
        \o (IF noEmail THEN <<"No email address found">> ELSE <<>>)
        \o (IF noPhone THEN <<"No phone number found">> ELSE <<>>)
        \o (IF tooShort THEN <<"Resume appears too short">> ELSE <<>>)
        \o (IF tooLong THEN <<"Resume may be too long">> ELSE <<>>),
         suggestions |->
           (IF fewSections THEN <<"Add missing sections like Experience, Education, or Skills">> ELSE <<>>)
        \o (IF fewBullets THEN <<"Use bullet points to organize information clearly">> ELSE <<>>)
        \o (IF noEmail THEN <<"Include a professional email address">> ELSE <<>>)
        \o (IF noPhone THEN <<"Include a phone number for contact">> ELSE <<>>)
        \o (IF tooShort THEN <<"Expand your experience and achievements">> ELSE <<>>)
        \o (IF tooLong THEN <<"Consider condensing to 1-2 pages">> ELSE <<>>)]
  IN analysis(Cardinality(foundSections) < 3, bulletCountOf(text) < 5,
              ~testEmail(text), ~testPhone(text),
              wordCount(text) < 200, wordCount(text) >= 200 /\ wordCount(text) > 800)

\* analyzeFormat with a length check that takes both deductions from a text outside
\* 200..800 words
analyzeFormatBothLengths(text) ==
  LET foundSections == {i \in DOMAIN sections : includes(toLowerCase(text), sections[i])}
      analysis(fewSections, fewBullets, noEmail, noPhone, tooShort, tooLong) ==
        [formatScore |->
           Num(Max(0, 100 - (IF fewSections THEN 20 ELSE 0) - (IF fewBullets THEN 15 ELSE 0)
                          - (IF noEmail THEN 10 ELSE 0) - (IF noPhone THEN 10 ELSE 0)
                          - (IF tooShort THEN 15 ELSE 0) - (IF tooLong THEN 10 ELSE 0))),
         issues |->
           (IF fewSections THEN <<"Missing essential sections">> ELSE <<>>)
        \o (IF fewBullets THEN <<"Few bullet points detected">> ELSE <<>>)
        \o (IF noEmail THEN <<"No email address found">> ELSE <<>>)
        \o (IF noPhone THEN <<"No phone number found">> ELSE <<>>)
        \o (IF tooShort THEN <<"Resume appears too short">> ELSE <<>>)
        \o (IF tooLong THEN <<"Resume may be too long">> ELSE <<>>),
         suggestions |->
           (IF fewSections THEN <<"Add missing sections like Experience, Education, or Skills">> ELSE <<>>)
        \o (IF fewBullets THEN <<"Use bullet points to organize information clearly">> ELSE <<>>)
        \o (IF noEmail THEN <<"Include a professional email address">> ELSE <<>>)
        \o (IF noPhone THEN <<"Include a phone number for contact">> ELSE <<>>)
        \o (IF tooShort THEN <<"Expand your experience and achievements">> ELSE <<>>)
        \o (IF tooLong THEN <<"Consider condensing to 1-2 pages">> ELSE <<>>)]
  IN analysis(Cardinality(foundSections) < 3, bulletCountOf(text) < 5,
              ~testEmail(text), ~testPhone(text),
              wordCount(text) < 200, wordCount(text) < 200 \/ wordCount(text) > 800)

\* analyzeFormat with a bullet search that resumes where the previous call stopped:
\* every call after the first finds no bullet
analyzeFormatRemembering(text) ==
  LET foundSections == {i \in DOMAIN sections : includes(toLowerCase(text), sections[i])}
      analysis(fewSections, fewBullets, noEmail, noPhone, tooShort, tooLong) ==
        [formatScore |->
           Num(Max(0, 100 - (IF fewSections THEN 20 ELSE 0) - (IF fewBullets THEN 15 ELSE 0)
                          - (IF noEmail THEN 10 ELSE 0) - (IF noPhone THEN 10 ELSE 0)
                          - (IF tooShort THEN 15 ELSE 0) - (IF tooLong THEN 10 ELSE 0))),
         issues |->
           (IF fewSections THEN <<"Missing essential sections">> ELSE <<>>)
        \o (IF fewBullets THEN <<"Few bullet points detected">> ELSE <<>>)
        \o (IF noEmail THEN <<"No email address found">> ELSE <<>>)
        \o (IF noPhone THEN <<"No phone number found">> ELSE <<>>)
        \o (IF tooShort THEN <<"Resume appears too short">> ELSE <<>>)
        \o (IF tooLong THEN <<"Resume may be too long">> ELSE <<>>),
         suggestions |->
           (IF fewSections THEN <<"Add missing sections like Experience, Education, or Skills">> ELSE <<>>)
        \o (IF fewBullets THEN <<"Use bullet points to organize information clearly">> ELSE <<>>)
        \o (IF noEmail THEN <<"Include a professional email address">> ELSE <<>>)
        \o (IF noPhone THEN <<"Include a phone number for contact">> ELSE <<>>)
        \o (IF tooShort THEN <<"Expand your experience and achievements">> ELSE <<>>)
        \o (IF tooLong THEN <<"Consider condensing to 1-2 pages">> ELSE <<>>)]
  IN analysis(Cardinality(foundSections) < 3, bulletCountOf(text) < 5 \/ formatCalls # <<>>,
              ~testEmail(text), ~testPhone(text),
              wordCount(text) < 200, wordCount(text) >= 200 /\ wordCount(text) > 800)

\* sections.filter(section => text.toLowerCase().includes(section))
analyzeFormat(text) ==
  LET foundSections == {i \in DOMAIN sections : includes(toLowerCase(text), sections[i])}
      analysis(fewSections, fewBullets, noEmail, noPhone, tooShort, tooLong) ==
        [formatScore |->
           Num(Max(0, 100 - (IF fewSections THEN 20 ELSE 0) - (IF fewBullets THEN 15 ELSE 0)
                          - (IF noEmail THEN 10 ELSE 0) - (IF noPhone THEN 10 ELSE 0)
                          - (IF tooShort THEN 15 ELSE 0) - (IF tooLong THEN 10 ELSE 0))),
         issues |->
           (IF fewSections THEN <<"Missing essential sections">> ELSE <<>>)
        \o (IF fewBullets THEN <<"Few bullet points detected">> ELSE <<>>)
        \o (IF noEmail THEN <<"No email address found">> ELSE <<>>)
        \o (IF noPhone THEN <<"No phone number found">> ELSE <<>>)
        \o (IF tooShort THEN <<"Resume appears too short">> ELSE <<>>)
        \o (IF tooLong THEN <<"Resume may be too long">> ELSE <<>>),
         suggestions |->
           (IF fewSections THEN <<"Add missing sections like Experience, Education, or Skills">> ELSE <<>>)
        \o (IF fewBullets THEN <<"Use bullet points to organize information clearly">> ELSE <<>>)
        \o (IF noEmail THEN <<"Include a professional email address">> ELSE <<>>)
        \o (IF noPhone THEN <<"Include a phone number for contact">> ELSE <<>>)
        \o (IF tooShort THEN <<"Expand your experience and achievements">> ELSE <<>>)
        \o (IF tooLong THEN <<"Consider condensing to 1-2 pages">> ELSE <<>>)]
  IN analysis(Cardinality(foundSections) < 3, bulletCountOf(text) < 5,
              ~testEmail(text), ~testPhone(text),
              wordCount(text) < 200, wordCount(text) >= 200 /\ wordCount(text) > 800)

----------------------------------------------------------------------------
(* OpenAIService.generateFallbackAnalysis *)

\* /\d+%|\d+\+|increased|improved|reduced|led \d+|managed \d+/.test(text)
testQuantified(text) ==
  LET test(words) ==
        \/ \E i \in DOMAIN words : \E j \in 1..(Len(words[i]) - 1) :
             IsDigit(words[i][j]) /\ words[i][j + 1] \in {"%", "+"}
        \/ includes(text, <<"i","n","c","r","e","a","s","e","d">>)
        \/ includes(text, <<"i","m","p","r","o","v","e","d">>)
        \/ includes(text, <<"r","e","d","u","c","e","d">>)
        \/ \E i \in 1..(Len(words) - 1) :
             /\ IsSuffix(<<"l","e","d">>, words[i]) \/ IsSuffix(<<"m","a","n","a","g","e","d">>, words[i])
             /\ words[i + 1] # <<>> /\ IsDigit(words[i + 1][1])
  IN test(Expand(text, 2))

Improvement(priority, category, title) ==
  [priority |-> priority, category |-> category, title |-> title]

SectionStatus(section, status, withSuggestions) ==
  [section |-> section, status |-> status, suggestions |-> withSuggestions]

generateFallbackAnalysis(resumeTextArg) ==
  LET text == toLowerCase(resumeTextArg)
      analysis(hasEmail, hasPhone, hasExperience, hasEducation, hasSkills, hasSummary,
               hasNumbers, bulletCount, words) ==
        [contentScore |->
           Num(Min(100, 60 + (IF hasNumbers THEN 15 ELSE 0) + (IF bulletCount >= 5 THEN 10 ELSE 0)
                           + (IF words >= 300 THEN 10 ELSE 0) - (IF words > 800 THEN 5 ELSE 0))),
         sectionCompleteness |-> Arr(
        << SectionStatus("Contact Information",
                         IF hasEmail /\ hasPhone THEN "complete" ELSE "incomplete",
                         ~hasEmail \/ ~hasPhone),
           SectionStatus("Professional Experience",
                         IF hasExperience THEN "complete" ELSE "missing", ~hasExperience),
           SectionStatus("Education",
                         IF hasEducation THEN "complete" ELSE "incomplete", ~hasEducation),
           SectionStatus("Skills",
                         IF hasSkills THEN "complete" ELSE "missing", ~hasSkills),
           SectionStatus("Summary/Profile",
                         IF hasSummary THEN "complete" ELSE "missing", ~hasSummary) >>),
         improvements |-> Arr(
           (IF ~hasNumbers
            THEN <<Improvement("high", "Content", "Add Quantified Achievements")>> ELSE <<>>)
        \o (IF bulletCount < 5
            THEN <<Improvement("medium", "Format", "Use More Bullet Points")>> ELSE <<>>)
        \o (IF ~hasSummary
            THEN <<Improvement("high", "Content", "Add Professional Summary")>> ELSE <<>>)
        \o (IF words < 200
            THEN <<Improvement("medium", "Content", "Expand Content")>> ELSE <<>>))]
  IN analysis(testEmail(text), testPhone(text),
              includes(text, <<"e","x","p","e","r","i","e","n","c","e">>) \/ includes(text, <<"w","o","r","k">>),
              includes(text, <<"e","d","u","c","a","t","i","o","n">>) \/ includes(text, <<"d","e","g","r","e","e">>),
              includes(text, <<"s","k","i","l","l","s">>) \/ includes(text, <<"t","e","c","h","n","o","l","o","g","i","e","s">>),
              includes(text, <<"s","u","m","m","a","r","y">>) \/ includes(text, <<"p","r","o","f","i","l","e">>),
              testQuantified(text), bulletCountOf(resumeTextArg), wordCount(resumeTextArg))

----------------------------------------------------------------------------
(* OpenAIService.generateFallbackKeywordAnalysis *)

commonKeywords == <<
  <<"j","a","v","a","s","c","r","i","p","t">>,
  <<"p","y","t","h","o","n">>,
  <<"j","a","v","a">>,
  <<"r","e","a","c","t">>,
  <<"n","o","d","e",".","j","s">>,
  <<"s","q","l">>,
  <<"a","w","s">>,
  <<"d","o","c","k","e","r">>,
  <<"k","u","b","e","r","n","e","t","e","s">>,
  <<"a","g","i","l","e">>,
  <<"s","c","r","u","m">>,
  <<"g","i","t">>,
  <<"m","o","n","g","o","d","b">>,
  <<"p","o","s","t","g","r","e","s","q","l">>,
  <<"a","p","i">>,
  <<"m","i","c","r","o","s","e","r","v","i","c","e","s">>,
  <<"c","i","/","c","d">>,
  <<"t","e","s","t","i","n","g">>,
  <<"h","t","m","l">>,
  <<"c","s","s">>,
  <<"t","y","p","e","s","c","r","i","p","t">>,
  <<"m","a","c","h","i","n","e"," ","l","e","a","r","n","i","n","g">>,
  <<"d","a","t","a"," ","a","n","a","l","y","s","i","s">>,
  <<"p","r","o","j","e","c","t"," ","m","a","n","a","g","e","m","e","n","t">>,
  <<"l","e","a","d","e","r","s","h","i","p">>,
  <<"f","r","o","n","t","e","n","d">>,
  <<"b","a","c","k","e","n","d">>,
  <<"f","u","l","l"," ","s","t","a","c","k">>,
  <<"d","e","v","o","p","s">>,
  <<"c","l","o","u","d">>,
  <<"m","o","b","i","l","e">>,
  <<"w","e","b">>,
  <<"d","a","t","a","b","a","s","e">>,
  <<"s","e","c","u","r","i","t","y">>,
  <<"u","i","/","u","x">>,
  <<"a","n","a","l","y","t","i","c","s">>,
  <<"a","u","t","o","m","a","t","i","o","n">>,
  <<"r","e","s","t"," ","a","p","i">> >>

technicalTerms == <<
  <<"j","a","v","a","s","c","r","i","p","t">>,
  <<"p","y","t","h","o","n">>,
  <<"j","a","v","a">>,
  <<"r","e","a","c","t">>,
  <<"n","o","d","e">>,
  <<"s","q","l">>,
  <<"a","w","s">>,
  <<"d","o","c","k","e","r">>,
  <<"k","u","b","e","r","n","e","t","e","s">>,
  <<"g","i","t">>,
  <<"m","o","n","g","o","d","b">>,
  <<"a","p","i">>,
  <<"f","r","o","n","t","e","n","d">>,
  <<"b","a","c","k","e","n","d">>,
  <<"d","a","t","a","b","a","s","e">>,
  <<"c","l","o","u","d">> >>

softSkills == <<
  <<"l","e","a","d","e","r","s","h","i","p">>,
  <<"m","a","n","a","g","e","m","e","n","t">>,
  <<"c","o","m","m","u","n","i","c","a","t","i","o","n">>,
  <<"t","e","a","m","w","o","r","k">>,
  <<"c","o","l","l","a","b","o","r","a","t","i","o","n">>,
  <<"p","r","o","b","l","e","m","-","s","o","l","v","i","n","g">>,
  <<"a","n","a","l","y","t","i","c","a","l">>,
  <<"c","r","e","a","t","i","v","e">>,
  <<"d","e","t","a","i","l","-","o","r","i","e","n","t","e","d">>,
  <<"a","g","i","l","e">>,
  <<"s","c","r","u","m">> >>

domainTerms == <<
  <<"f","i","n","a","n","c","e">>,
  <<"h","e","a","l","t","h","c","a","r","e">>,
  <<"r","e","t","a","i","l">>,
  <<"m","a","r","k","e","t","i","n","g">>,
  <<"s","a","l","e","s">>,
  <<"e","d","u","c","a","t","i","o","n">>,
  <<"m","a","n","u","f","a","c","t","u","r","i","n","g">>,
  <<"l","o","g","i","s","t","i","c","s">>,
  <<"s","e","c","u","r","i","t","y">>,
  <<"a","n","a","l","y","t","i","c","s">> >>

defaultMatches == <<
  <<"p","r","o","g","r","a","m","m","i","n","g">>,
  <<"s","o","f","t","w","a","r","e">>,
  <<"d","e","v","e","l","o","p","m","e","n","t">>,
  <<"e","x","p","e","r","i","e","n","c","e">> >>

\* the characters of a text: its words joined by single spaces
RECURSIVE JoinWords(_)
JoinWords(words) ==
  IF words = <<>> THEN <<>>
  ELSE IF Len(words) = 1 THEN words[1]
  ELSE words[1] \o <<" ">> \o JoinWords(Tail(words))
Flatten(text) == JoinWords(Expand(text, wordCount(text)))

\* the maximal pieces of word characters of a character sequence: s.split(/\W+/),
\* without the empty pieces
RECURSIVE SplitNonWord(_)
SplitNonWord(s) ==
  IF s = <<>> THEN <<>>
  ELSE IF ~IsWordChar(s[1]) THEN SplitNonWord(Tail(s))
  ELSE LET stops == {i \in DOMAIN s : ~IsWordChar(s[i])}
           e == IF stops = {} THEN Len(s) + 1 ELSE CHOOSE i \in stops : \A j \in stops : i <= j
       IN <<SubSeq(s, 1, e - 1)>> \o SplitNonWord(SubSeq(s, e, Len(s)))

\* \b between positions p-1 and p of s
Boundary(s, p) ==
  (p - 1 >= 1 /\ p - 1 <= Len(s) /\ IsWordChar(s[p - 1]))
    # (p >= 1 /\ p <= Len(s) /\ IsWordChar(s[p]))

\* length of the match of /\b[a-z][a-z\s]{5,30}?\b/ at position p, or 0
PhraseLenAt(s, p) ==
  LET ok(l) == /\ p + l - 1 <= Len(s)
               /\ \A i \in (p + 1)..(p + l - 1) : IsLower(s[i]) \/ s[i] = " "
               /\ Boundary(s, p + l)
      shortest(ls) ==
        IF p <= Len(s) /\ IsLower(s[p]) /\ Boundary(s, p) /\ ls # {}
        THEN CHOOSE l \in ls : \A m \in ls : l <= m
        ELSE 0
  IN shortest({l \in 6..31 : ok(l)})

\* s.match(/\b[a-z][a-z\s]{5,30}?\b/g) || [], scanning from position p
RECURSIVE PhrasesFrom(_, _)
PhrasesFrom(s, p) ==
  IF p > Len(s) THEN <<>>
  ELSE LET l == PhraseLenAt(s, p)
       IN IF l = 0 THEN PhrasesFrom(s, p + 1)
          ELSE <<SubSeq(s, p, p + l - 1)>> \o PhrasesFrom(s, p + l)

\* length of the match of /\b[A-Z][a-zA-Z]+\b/ at position p, or 0
CapitalizedLenAt(s, p) ==
  LET letter(i) == i <= Len(s) /\ (IsUpper(s[i]) \/ IsLower(s[i]))
      first(stops) == CHOOSE i \in stops : \A j \in stops : i <= j
      upTo(e) == IF p <= Len(s) /\ IsUpper(s[p]) /\ Boundary(s, p) /\ e - p >= 2 /\ Boundary(s, e)
                 THEN e - p ELSE 0
  IN upTo(first({i \in (p + 1)..(Len(s) + 1) : ~letter(i)}))

\* s.match(/\b[A-Z][a-zA-Z]+\b/g) || [], scanning from position p
RECURSIVE CapitalizedFrom(_, _)
CapitalizedFrom(s, p) ==
  IF p > Len(s) THEN <<>>
  ELSE LET l == CapitalizedLenAt(s, p)
       IN IF l = 0 THEN CapitalizedFrom(s, p + 1)
          ELSE <<SubSeq(s, p, p + l - 1)>> \o CapitalizedFrom(s, p + l)

\* [...new Set(keywords)]: first occurrences, in order
RECURSIVE Unique(_)
Unique(s) ==
  IF s = <<>> THEN <<>>
  ELSE LET r == Unique(SubSeq(s, 1, Len(s) - 1))
           x == s[Len(s)]
       IN IF \E i \in DOMAIN r : r[i] = x THEN r ELSE Append(r, x)

\* s.slice(0, k)
Slice(s, k) == SubSeq(s, 1, Min(k, Len(s)))

extractKeywords(text) ==
  LET longer(w) == Len(w) > 3
      inText(k) == includes(text, toLowerWord(k))
      lower(capitalized) == [i \in DOMAIN capitalized |-> toLowerWord(capitalized[i])]
      keywords(chars) ==
        Unique(SelectSeq(SplitNonWord(chars), longer) \o SelectSeq(commonKeywords, inText)
               \o PhrasesFrom(chars, 1) \o lower(CapitalizedFrom(chars, 1)))
  IN keywords(Flatten(text))

\* the keywords of the job description that are classified against the resume
jobKeywordsOf(jobDescriptionArg) ==
  LET longer(w) == Len(w) > 3
  IN Slice(SelectSeq(extractKeywords(toLowerCase(jobDescriptionArg)), longer), 20)

categorizeKeywords(keywords) ==
  LET hasAny(k, terms) == \E i \in DOMAIN terms : IsSubstr(terms[i], k)
      isTechnical(k) == hasAny(k, technicalTerms)
      isSoft(k) == ~isTechnical(k) /\ hasAny(k, softSkills)
      isDomain(k) == ~isTechnical(k) /\ ~hasAny(k, softSkills) /\ hasAny(k, domainTerms)
      isOther(k) == ~isTechnical(k) /\ ~hasAny(k, softSkills) /\ ~hasAny(k, domainTerms)
  IN [technical |-> SelectSeq(keywords, isTechnical),
      soft |-> SelectSeq(keywords, isSoft),
      domain |-> SelectSeq(keywords, isDomain),
      other |-> SelectSeq(keywords, isOther)]

Suggestion(text, keywords) == [text |-> text, keywords |-> keywords]

generateSuggestions(missingKeywords) ==
  LET suggestions(categorized) ==
        IF Len(missingKeywords) = 0
        THEN <<Suggestion("Great keyword coverage for this role!", <<>>)>>
        ELSE <<Suggestion("Add these key missing terms", Slice(missingKeywords, 3))>>
          \o (IF Len(categorized.technical) > 0
              THEN <<Suggestion("Highlight technical skills like", Slice(categorized.technical, 3))>>
              ELSE <<>>)
          \o (IF Len(categorized.soft) > 0
              THEN <<Suggestion("Incorporate soft skills such as", Slice(categorized.soft, 2))>>
              ELSE <<>>)
          \o (IF Len(categorized.domain) > 0
              THEN <<Suggestion("Add domain knowledge in", Slice(categorized.domain, 2))>>
              ELSE <<>>)
          \o <<Suggestion("Tailor your resume to match terminology used in the job description", <<>>)>>
  IN suggestions(categorizeKeywords(missingKeywords))

\* jobKeywordsOf, tabulated over the job descriptions of the model
JobKeywordsOf == [job \in JobTexts |-> jobKeywordsOf(job)]

generateFallbackKeywordAnalysis(resumeTextArg, jobDescriptionArg) ==
  LET resumeTextLower == toLowerCase(resumeTextArg)
      inResume(k) == includes(resumeTextLower, toLowerWord(k))
      notInResume(k) == ~inResume(k)
      strings(ws) == Arr([i \in DOMAIN ws |-> Str(ws[i])])
      analysis(keywordMatches, missingKeywords) ==
        [keywordMatches |-> strings(keywordMatches),
         missingKeywords |-> strings(Slice(missingKeywords, 10)),
         keywordScore |-> IF Len(keywordMatches) > 0
                          THEN RoundPercent(Len(keywordMatches),
                                            Len(keywordMatches) + Len(missingKeywords))
                          ELSE Num(30),
         improvementSuggestions |-> Arr(generateSuggestions(missingKeywords))]
      matches(found) == IF Len(found) = 0 THEN SelectSeq(defaultMatches, inResume) ELSE found
      classify(jobKeywords) ==
        analysis(matches(SelectSeq(jobKeywords, inResume)), SelectSeq(jobKeywords, notInResume))
  IN classify(JobKeywordsOf[jobDescriptionArg])

----------------------------------------------------------------------------
(* callMoonshotAPI and the responses of the AI service *)

USE_FALLBACK == FALSE

\* a response body of the chat-completions shape whose choices[0].message.content is content
ChatResponse(content) == [shape |-> "chat", content |-> content]
\* a 2xx response body without choices
NoChoices == [shape |-> "other"]

\* content strings: the JSON text of a value, text that is not JSON, text that is
\* not JSON but contains a [...] span, and the empty string
JsonText(v) == [k |-> "json", val |-> v]
Prose == [k |-> "prose"]
ProseWithArray(span) == [k |-> "embedded", span |-> span]
EmptyContent == [k |-> "empty"]

\* the object literal of both fallback returns of callMoonshotAPI
FallbackBody(sectionCompleteness) ==
  Obj([EmptyObj EXCEPT
        !.contentScore = Num(65),
        !.improvements = Arr(<<Improvement("medium", "API Error", "API Service Unavailable")>>),
        !.sectionCompleteness = Arr(sectionCompleteness)])

IncompleteSections ==
  << SectionStatus("Contact Information", "incomplete", FALSE),
     SectionStatus("Summary/Objective", "incomplete", FALSE),
     SectionStatus("Work Experience", "incomplete", FALSE),
     SectionStatus("Skills", "incomplete", FALSE),
     SectionStatus("Education", "incomplete", FALSE) >>

\* outcomes of one call: the key is missing, fetch rejects, the status is not 2xx,
\* the body is not JSON, or the body is data
NoKey == [k |-> "no_key"]
Ok(data) == [k |-> "ok", data |-> data]

callMoonshotAPI(outcome) ==
  IF USE_FALLBACK THEN ChatResponse(JsonText(FallbackBody(IncompleteSections)))
  ELSE IF outcome.k = "ok" THEN outcome.data
  ELSE ChatResponse(JsonText(FallbackBody(<<>>)))

\* response.choices[0].message.content raises a TypeError
ContentThrows(response) == response.shape # "chat"

\* JSON.parse(content || fallbackText): [ok |-> FALSE] when it raises
JsonParseOr(content, fallbackValue) ==
  CASE content.k = "json" -> [ok |-> TRUE, val |-> content.val]
    [] content.k = "empty" -> [ok |-> TRUE, val |-> fallbackValue]
    [] OTHER -> [ok |-> FALSE]

----------------------------------------------------------------------------
(* OpenAIService.analyzeResumeContent and compareWithJobDescription *)

\* the deterministic analyses, tabulated over the texts of the model
FormatAnalysisOf == [text \in ResumeTexts |-> analyzeFormat(text)]
FallbackAnalysisOf == [text \in ResumeTexts |-> generateFallbackAnalysis(text)]
FallbackKeywordAnalysisOf ==
  [text \in ResumeTexts |-> [job \in JobTexts |-> generateFallbackKeywordAnalysis(text, job)]]

analyzeResumeContent(resumeTextArg, response) ==
  LET parsed == JsonParseOr(response.content, Obj(EmptyObj))
      result == parsed.val
  IN IF ContentThrows(response) \/ ~parsed.ok \/ PropertyThrows(result)
     THEN FallbackAnalysisOf[resumeTextArg]
     ELSE [contentScore |->
             MathMax(Num(0), MathMin(Num(100), OrElse(Get(result, "contentScore"), Num(50)))),
           improvements |-> OrElse(Get(result, "improvements"), Arr(<<>>)),
           sectionCompleteness |-> OrElse(Get(result, "sectionCompleteness"), Arr(<<>>))]

compareWithJobDescription(resumeTextArg, jobDescriptionArg, response) ==
  LET parsed == JsonParseOr(response.content, Obj(EmptyObj))
      result == parsed.val
  IN IF ContentThrows(response) \/ ~parsed.ok \/ PropertyThrows(result)
     THEN FallbackKeywordAnalysisOf[resumeTextArg][jobDescriptionArg]
     ELSE [keywordMatches |-> OrElse(Get(result, "keywordMatches"), Arr(<<>>)),
           missingKeywords |-> OrElse(Get(result, "missingKeywords"), Arr(<<>>)),
           keywordScore |->
             MathMax(Num(0), MathMin(Num(100), OrElse(Get(result, "keywordScore"), Num(50)))),
           improvementSuggestions |-> OrElse(Get(result, "improvementSuggestions"), Arr(<<>>))]

----------------------------------------------------------------------------
(* ATSAnalyzer *)

\* no value: a local not assigned yet, an operation that has not returned
NoValue == [t |-> "none"]

\* Math.floor(Math.random() * 10)
RandomDraws == 0..9

\* analyzeResume aggregating with the weights of analyzeResumeWithJob
analyzeResumeOtherWeights(format, content, draw) ==
  LET defaultKeywordScore ==
        MathMin(Num(85), MathMax(Num(40), Plus(Plus(content.contentScore, Num(draw)), Num(-5))))
      atsScore == WeightedRound(format.formatScore, 25, content.contentScore, 35,
                                defaultKeywordScore, 40)
  IN [t |-> "report",
      atsScore |-> atsScore,
      formatScore |-> format.formatScore,
      keywordScore |-> defaultKeywordScore,
      contentScore |-> content.contentScore,
      keywordMatches |-> Arr(<<>>),
      missingKeywords |-> Arr(<<>>),
      improvements |-> content.improvements,
      sectionCompleteness |-> content.sectionCompleteness]

analyzeResume(format, content, draw) ==
  LET defaultKeywordScore ==
        MathMin(Num(85), MathMax(Num(40), Plus(Plus(content.contentScore, Num(draw)), Num(-5))))
      atsScore == WeightedRound(format.formatScore, 30, content.contentScore, 40,
                                defaultKeywordScore, 30)
  IN [t |-> "report",
      atsScore |-> atsScore,
      formatScore |-> format.formatScore,
      keywordScore |-> defaultKeywordScore,
      contentScore |-> content.contentScore,
      keywordMatches |-> Arr(<<>>),
      missingKeywords |-> Arr(<<>>),
      improvements |-> content.improvements,
      sectionCompleteness |-> content.sectionCompleteness]

\* the spread of contentAnalysis.improvements raises a TypeError
analyzeResumeWithJobThrows(content) == ~IsIterable(content.improvements)

analyzeResumeWithJob(format, content, keyword) ==
  LET keywordMatchCount == Length(keyword.keywordMatches)
      missingKeywordCount == Length(keyword.missingKeywords)
      totalKeywords == IF IsNum(keywordMatchCount) /\ IsNum(missingKeywordCount)
                       THEN Plus(keywordMatchCount, missingKeywordCount)
                       ELSE NaN
      dynamicKeywordScore ==
        IF GreaterThanZero(totalKeywords)
        THEN RoundPercent(keywordMatchCount.h \div 2, totalKeywords.h \div 2)
        ELSE keyword.keywordScore
      atsScore == WeightedRound(format.formatScore, 25, content.contentScore, 35,
                                dynamicKeywordScore, 40)
      addMissing ==
        IF GreaterThanZero(missingKeywordCount)
        THEN <<[priority |-> "high", category |-> "Keywords", title |-> "Add Missing Keywords",
                missing |-> missingKeywordCount, suggestions |-> keyword.improvementSuggestions]>>
        ELSE <<>>
  IN [t |-> "report",
      atsScore |-> atsScore,
      formatScore |-> format.formatScore,
      keywordScore |-> keyword.keywordScore,
      contentScore |-> content.contentScore,
      keywordMatches |-> keyword.keywordMatches,
      missingKeywords |-> keyword.missingKeywords,
      improvements |-> Arr(Spread(content.improvements) \o addMissing),
      sectionCompleteness |-> content.sectionCompleteness]

----------------------------------------------------------------------------
(* Inputs: the responses of the AI service *)

\* JSON values the AI returns for the content prompt
ContentValues ==
  { Obj([EmptyObj EXCEPT
           !.contentScore = Num(72),
           !.improvements = Arr(<<Improvement("low", "Content", "Use Stronger Action Verbs")>>),
           !.sectionCompleteness = Arr(<<SectionStatus("Skills", "complete", FALSE)>>)]),
    Obj([EmptyObj EXCEPT !.contentScore = NumHalves(145)]),
    Obj([EmptyObj EXCEPT !.contentScore = Num(0), !.improvements = Arr(<<>>)]),
    Obj([EmptyObj EXCEPT !.contentScore = Num(150)]),
    Obj([EmptyObj EXCEPT !.contentScore = Num(-5)]),
    Obj([EmptyObj EXCEPT !.contentScore = Str(<<"h","i","g","h">>)]),
    Obj([EmptyObj EXCEPT !.contentScore = Num(80), !.improvements = Obj(EmptyObj)]),
    Obj(EmptyObj),
    Null }

\* JSON values the AI returns for the keyword prompt
KeywordValues ==
  LET kwReact == Str(<<"r","e","a","c","t">>)
      kwDocker == Str(<<"d","o","c","k","e","r">>)
      kwPython == Str(<<"p","y","t","h","o","n">>)
  IN
  { Obj([EmptyObj EXCEPT !.keywordMatches = Arr(<<kwReact>>), !.missingKeywords = Arr(<<kwDocker>>),
                         !.keywordScore = Num(90),
                         !.improvementSuggestions = Arr(<<Suggestion("Mention Docker", <<>>)>>)]),
    Obj([EmptyObj EXCEPT !.keywordMatches = Arr(<<kwReact, kwPython>>),
                         !.missingKeywords = Arr(<<kwReact>>), !.keywordScore = Num(67)]),
    Obj([EmptyObj EXCEPT !.keywordMatches = Arr(<<kwReact, kwPython>>),
                         !.missingKeywords = Arr(<<kwDocker>>), !.keywordScore = Num(67)]),
    Obj([EmptyObj EXCEPT !.keywordMatches = Arr(<<kwReact>>), !.keywordScore = Num(100)]),
    Obj([EmptyObj EXCEPT !.keywordMatches = Num(5), !.missingKeywords = Arr(<<kwDocker>>),
                         !.keywordScore = NumHalves(145)]),
    Obj([EmptyObj EXCEPT !.keywordScore = Num(0)]),
    Null }

ContentsOf(values) == {JsonText(v) : v \in values} \cup {Prose, EmptyContent}

\* what a settled fetch can yield for a prompt whose answers carry one of contents
FetchOutcomes(contents) ==
  {[k |-> "network_error"], [k |-> "http_error"], [k |-> "bad_body"], Ok(NoChoices)}
  \cup {Ok(ChatResponse(c)) : c \in contents}

----------------------------------------------------------------------------
(* OpenAIService.extractJobTitles, extractCompanies, extractSkills,
   extractAchievements, extractProjects *)

\* the inner try of extractJobTitles, extractSkills and extractProjects: a content
\* that is not JSON is searched for a [...] span, which is parsed in turn
ParseLenient(content) ==
  CASE content.k \in {"json", "empty"} -> JsonParseOr(content, Arr(<<>>)).val
    [] content.k = "embedded" ->
         IF JsonParseOr(content.span, Arr(<<>>)).ok THEN JsonParseOr(content.span, Arr(<<>>)).val ELSE Arr(<<>>)
    [] OTHER -> Arr(<<>>)

\* Array.isArray(result) ? result : []
ArrayOrEmpty(result) == IF result.t = "arr" THEN result ELSE Arr(<<>>)

\* the return of a catch branch: what the scan of the lines found, or the default
FoundOr(found, defaults) ==
  IF Len(found) > 0 THEN Arr(found) ELSE Arr([i \in DOMAIN defaults |-> Str(defaults[i])])

\* extractors whose content is parsed leniently
extractLenient(response, found, defaults) ==
  IF ContentThrows(response) THEN FoundOr(found, defaults)
  ELSE ArrayOrEmpty(ParseLenient(response.content))

\* extractors whose content goes to JSON.parse directly
extractStrict(response, found, defaults) ==
  IF ContentThrows(response) \/ ~JsonParseOr(response.content, Arr(<<>>)).ok
  THEN FoundOr(found, defaults)
  ELSE ArrayOrEmpty(JsonParseOr(response.content, Arr(<<>>)).val)

extractJobTitles(response, found) ==
  extractLenient(response, found, <<<<"S","o","f","t","w","a","r","e"," ","E","n","g","i","n","e","e","r">>>>)
extractCompanies(response, found) ==
  extractStrict(response, found, <<<<"p","r","e","v","i","o","u","s"," ","c","o","m","p","a","n","y">>>>)
extractSkills(response, found) ==
  extractLenient(response, found, <<<<"p","r","o","g","r","a","m","m","i","n","g">>, <<"d","e","v","e","l","o","p","m","e","n","t">>>>)
extractAchievements(response, found) ==
  extractStrict(response, found, <<<<"p","a","s","t"," ","a","c","h","i","e","v","e","m","e","n","t"," ","o","r"," ","p","r","o","j","e","c","t">>>>)
extractProjects(response, found) ==
  extractLenient(response, found, <<<<"N","o"," ","s","p","e","c","i","f","i","c"," ","p","r","o","j","e","c","t","s"," ","i","d","e","n","t","i","f","i","e","d">>>>)

ExtractEntries == {"extractJobTitles", "extractCompanies", "extractSkills",
                   "extractAchievements", "extractProjects"}

extractOf(name, response, found) ==
  CASE name = "extractJobTitles" -> extractJobTitles(response, found)
    [] name = "extractCompanies" -> extractCompanies(response, found)
    [] name = "extractSkills" -> extractSkills(response, found)
    [] name = "extractAchievements" -> extractAchievements(response, found)
    [] name = "extractProjects" -> extractProjects(response, found)

\* what the line scan of a catch branch collects from the text: nothing, or items
ScanResults == { <<>>, <<Str(<<"A","c","m","e"," ","C","o","r","p">>)>>, <<Str(<<"A","c","m","e"," ","C","o","r","p">>), Str(<<"R","e","a","c","t">>)>> }

\* contents of an answer to an extraction prompt: JSON values, prose, prose around
\* a [...] span
ExtractContents ==
  LET ExtractValues ==
  { Arr(<<>>), Arr(<<Str(<<"A","c","m","e"," ","C","o","r","p">>)>>), Arr(<<Str(<<"A","c","m","e"," ","C","o","r","p">>), Str(<<"R","e","a","c","t">>)>>),
    Arr(<<Str(<<"R","e","a","c","t">>), Str(<<"R","e","a","c","t">>)>>), Obj(EmptyObj), Str(<<"n","o","n","e">>), Null }
  IN
  ContentsOf(ExtractValues)
  \cup {ProseWithArray(JsonText(Arr(<<Str(<<"R","e","a","c","t">>)>>))), ProseWithArray(JsonText(Arr(<<>>))),
        ProseWithArray(Prose)}

----------------------------------------------------------------------------
(* PDFProcessor.extractText and cleanExtractedText *)

\* String.prototype.trim: without the empty words at either end
trim(text) ==
  LET kept == {i \in DOMAIN text : text[i].w # <<>>}
  IN IF kept = {} THEN EmptyText
     ELSE SubSeq(text, CHOOSE i \in kept : \A j \in kept : i <= j,
                       CHOOSE i \in kept : \A j \in kept : i >= j)

\* the whitespace runs become single spaces (the empty words between two words go,
\* those at either end become one), then the characters outside \x20-\x7E go, then
\* the result is trimmed; the texts of the model hold no ". ", which the second
\* replace would turn into a line break
cleanExtractedText(text) ==
  LET blank == [w |-> <<>>, n |-> 1]
      collapsed ==
        IF IsBlank(text)
        THEN (IF Len(text) = 1 /\ text[1].n = 1 THEN EmptyText ELSE SpaceText)
        ELSE (IF text[1].w = <<>> THEN <<blank>> ELSE <<>>)
             \o SelectSeq(text, LAMBDA r : r.w # <<>>)
             \o (IF text[Len(text)].w = <<>> THEN <<blank>> ELSE <<>>)
      IsPrintable(c) == c \notin {"BULLET", "MIDDOT"}
      printable == [i \in DOMAIN collapsed |->
                      [w |-> SelectSeq(collapsed[i].w, IsPrintable), n |-> collapsed[i].n]]
  IN trim(printable)

\* extractText of an uploaded file: absent ("none"), empty ("empty"), one that no
\* parser reads ("unparseable"), or one holding a text; [ok |-> FALSE] when it throws
extractText(file) ==
  IF file.k # "file" \/ IsBlank(file.text)
  THEN [ok |-> FALSE]
  ELSE [ok |-> TRUE, text |-> cleanExtractedText(file.text)]

----------------------------------------------------------------------------
(* Storage: the tables resumes and analyses *)

Row(resumeId, jobDescriptionArg, analysis, improvements) ==
  [resumeId |-> resumeId,
   jobDescription |-> jobDescriptionArg,
   atsScore |-> analysis.atsScore,
   formatScore |-> analysis.formatScore,
   keywordScore |-> analysis.keywordScore,
   contentScore |-> analysis.contentScore,
   keywordMatches |-> analysis.keywordMatches,
   missingKeywords |-> analysis.missingKeywords,
   improvements |-> improvements,
   sectionCompleteness |-> analysis.sectionCompleteness]

\* insertAnalysisSchema.parse followed by the insert of createAnalysis succeeds: the
\* four scores fit integer columns and the keyword lists are arrays of strings
CanCreateAnalysis(row) ==
  LET IsStringArray(v) == v.t = "arr" /\ \A i \in DOMAIN v.a : v.a[i].t = "str"
      IsInteger(v) == IsIntIn(v, -2147483647 - 1, 2147483647)
  IN
  /\ IsInteger(row.atsScore) /\ IsInteger(row.formatScore)
  /\ IsInteger(row.keywordScore) /\ IsInteger(row.contentScore)
  /\ IsStringArray(row.keywordMatches) /\ IsStringArray(row.missingKeywords)

\* getAnalysis: the first row of the resume, or undefined
getAnalysis(rows, resumeId) ==
  LET own == SelectSeq(rows, LAMBDA r : r.resumeId = resumeId)
  IN IF own = <<>> THEN Undef ELSE [t |-> "row", row |-> own[1]]

deleteAnalysisByResumeId(rows, resumeId) == SelectSeq(rows, LAMBDA r : r.resumeId # resumeId)

\* the resume texts that are in storage when a request arrives
StoredTexts == { MakeResume(4, TRUE, TRUE, 5, TRUE, 290),
                 MakeResume(2, FALSE, FALSE, 0, FALSE, 0) }

\* the analysis an upload of text left behind
PriorAnalysisOf(text) ==
  LET analysis == analyzeResume(FormatAnalysisOf[text], FallbackAnalysisOf[text], 5)
  IN Row(1, Null, analysis, analysis.improvements)

\* texts held by uploaded files
RawTexts ==
  LET GlyphText == <<[w |-> <<"BULLET">>, n |-> 1]>>
  IN StoredTexts \cup {EmptyText, SpaceText, GlyphText}
     \cup {GlyphText \o text : text \in StoredTexts}

----------------------------------------------------------------------------
(* OpenAIService.generateInterviewQuestions and generateFallbackInterviewQuestions

   A profile holds what the extractors returned: [jobTitles, companies, skills,
   projects], each a sequence of string values (the achievements are only logged).
   The text of a fallback question is [t |-> "template", parts |-> pieces]: the
   pieces of the template literal, the interpolated strings as tuples of
   characters.  The tips and the resume_context of the fallback questions are left
   out. *)

\* a question object
Question(category, question, tips) ==
  [category |-> category, question |-> question, tips |-> tips]

\* project.includes(':') ? project.split(':')[0] : project
projectName(project) ==
  IF \E i \in DOMAIN project : project[i] = ":"
  THEN SubSeq(project, 1, (CHOOSE i \in DOMAIN project :
                             project[i] = ":" /\ \A j \in 1..(i - 1) : project[j] # ":") - 1)
  ELSE project

generateFallbackInterviewQuestions(resumeTextArg, jobTitleArg, lists) ==
  LET text == toLowerCase(resumeTextArg)
      jobTitles == lists.jobTitles
      companies == lists.companies
      skills == lists.skills
      projects == lists.projects
      target == OrElse(jobTitleArg, Str(<<"S","o","f","t","w","a","r","e"," ","E","n","g","i","n","e","e","r">>)).s
      Q(category, parts) ==
        Question(Str(category), [t |-> "template", parts |-> parts], Arr(<<>>))
      has(s, needle) == IsSubstr(needle, s)
      hasAny(s, needles) == \E i \in DOMAIN needles : has(toLowerWord(s), needles[i])
      among(needles) == SelectSeq(skills, LAMBDA skill : hasAny(skill.s, needles))
      first(found, before, after) ==
        IF Len(found) > 0 THEN <<Q(<<"T","e","c","h","n","i","c","a","l">>, <<before, found[1].s, after>>)>> ELSE <<>>
      firstTwice(found, before, between, after) ==
        IF Len(found) > 0
        THEN <<Q(<<"T","e","c","h","n","i","c","a","l">>, <<before, found[1].s, between, found[1].s, after>>)>> ELSE <<>>
      validTitles == Len(jobTitles) > 0 /\ jobTitles[1].s # <<"S","o","f","t","w","a","r","e"," ","E","n","g","i","n","e","e","r">>
      companyQuestions ==
        IF Len(companies) > 0 /\ companies[1].s # <<"N","o"," ","s","p","e","c","i","f","i","c"," ","c","o","m","p","a","n","y"," ","i","d","e","n","t","i","f","i","e","d">>
        THEN [i \in 1..Min(Len(companies), 2) |->
                Q(<<"B","e","h","a","v","i","o","r","a","l">>, <<"During your time at ", companies[i].s,
                                  ", what was the most significant challenge you faced and how did you overcome it?">>)]
             \o (IF Len(companies) >= 2
                 THEN <<Q(<<"L","e","a","d","e","r","s","h","i","p">>, <<"How would you compare the team cultures at ", companies[1].s,
                                          " and ", companies[2].s,
                                          "? What leadership approaches were most effective in each environment?">>)>>
                 ELSE <<>>)
        ELSE <<>>
      titleQuestions ==
        IF validTitles
        THEN [i \in 1..Min(Len(jobTitles), 2) |->
                IF hasAny(jobTitles[i].s, <<<<"s","e","n","i","o","r">>, <<"l","e","a","d">>, <<"m","a","n","a","g","e","r">>>>)
                THEN Q(<<"L","e","a","d","e","r","s","h","i","p">>, <<"As a ", jobTitles[i].s,
                                       ", describe a situation where you had to make a difficult decision that impacted your team or project. What was your decision-making process?">>)
                ELSE Q(<<"R","o","l","e","-","s","p","e","c","i","f","i","c">>, <<"In your role as ", jobTitles[i].s,
                                          ", what was the most innovative solution you implemented and what impact did it have?">>)]
        ELSE <<>>
      skillQuestions ==
        IF Len(skills) > 0
        THEN firstTwice(among(<<<<"j","a","v","a","s","c","r","i","p","t">>, <<"p","y","t","h","o","n">>, <<"j","a","v","a">>, <<"c","#">>, <<"c","+","+">>, <<"t","y","p","e","s","c","r","i","p","t">>,
                                <<"g","o">>, <<"r","u","b","y">>, <<"p","h","p">>, <<"s","w","i","f","t">>, <<"k","o","t","l","i","n">>>>),
                        "You've listed ", " as one of your skills. Describe a complex problem you solved using ",
                        " and explain your approach to the solution.")
             \o first(among(<<<<"r","e","a","c","t">>, <<"a","n","g","u","l","a","r">>, <<"v","u","e">>, <<"d","j","a","n","g","o">>, <<"f","l","a","s","k">>, <<"s","p","r","i","n","g">>,
                              <<"e","x","p","r","e","s","s">>, <<"n","o","d","e">>, <<".","n","e","t">>, <<"l","a","r","a","v","e","l">>, <<"r","a","i","l","s">>>>),
                      "How have you leveraged ",
                      " in your previous projects? What specific features or patterns did you implement?")
             \o first(among(<<<<"s","q","l">>, <<"n","o","s","q","l">>, <<"m","o","n","g","o","d","b">>, <<"p","o","s","t","g","r","e","s","q","l">>, <<"m","y","s","q","l">>, <<"o","r","a","c","l","e">>,
                              <<"d","y","n","a","m","o","d","b">>, <<"f","i","r","e","b","a","s","e">>, <<"r","e","d","i","s">>>>),
                      "With your experience in ",
                      ", how would you design a database schema for a system that needs to handle high-volume transactions while maintaining data integrity?")
             \o first(among(<<<<"a","w","s">>, <<"a","z","u","r","e">>, <<"g","c","p">>, <<"c","l","o","u","d">>, <<"d","o","c","k","e","r">>, <<"k","u","b","e","r","n","e","t","e","s">>,
                              <<"s","e","r","v","e","r","l","e","s","s">>, <<"l","a","m","b","d","a">>>>),
                      "Based on your experience with ",
                      ", how would you design a scalable and resilient architecture for a mission-critical application?")
        ELSE <<>>
      projectQuestions ==
        IF Len(projects) > 0 /\ projects[1].s # <<"N","o"," ","s","p","e","c","i","f","i","c"," ","p","r","o","j","e","c","t","s"," ","i","d","e","n","t","i","f","i","e","d">>
        THEN <<Q(<<"P","r","o","j","e","c","t">>, <<"Regarding your ", projectName(projects[1].s),
                              " project, what were the most significant technical challenges you faced and how did you overcome them?">>)>>
             \o (IF Len(projects) >= 2
                 THEN <<Q(<<"P","r","o","j","e","c","t">>, <<"Regarding your ", projectName(projects[2].s),
                                       " project, what were the most significant technical challenges you faced and how did you overcome them?">>),
                        Q(<<"P","r","o","j","e","c","t">>, <<"For your ", projectName(projects[2].s),
                                       " project, how did you approach collaboration with other team members and stakeholders?">>)>>
                 ELSE <<>>)
        ELSE <<>>
      leadershipQuestions ==
        IF includes(text, <<"l","e","a","d">>) \/ includes(text, <<"m","a","n","a","g","e">>) \/ includes(text, <<"s","e","n","i","o","r">>)
        THEN <<Q(<<"L","e","a","d","e","r","s","h","i","p">>, <<"How do you prioritize tasks when managing multiple projects?">>),
               Q(<<"L","e","a","d","e","r","s","h","i","p">>, <<"Describe your approach to mentoring junior developers.">>)>>
        ELSE <<>>
      problemSolvingQuestions ==
        <<Q(<<"P","r","o","b","l","e","m"," ","S","o","l","v","i","n","g">>, <<"Walk me through how you would debug a performance issue in a web application.">>),
          Q(<<"P","r","o","b","l","e","m"," ","S","o","l","v","i","n","g">>, <<"How would you approach learning a new technology or framework?">>)>>
      roleQuestions ==
        (IF validTitles
         THEN <<Q(<<"R","o","l","e","-","S","p","e","c","i","f","i","c">>, <<"How has your experience as a ", jobTitles[1].s,
                                     " prepared you for this ", target, " role?">>)>>
         ELSE <<>>)
        \o <<Q(<<"R","o","l","e","-","S","p","e","c","i","f","i","c">>, <<"Why are you interested in this ", target, " position?">>)>>
  IN Slice(companyQuestions \o titleQuestions \o skillQuestions \o projectQuestions
           \o leadershipQuestions \o problemSolvingQuestions \o roleQuestions, 10)

hasValidData(lists) ==
  \/ Len(lists.jobTitles) > 0 /\ lists.jobTitles[1].s # <<"S","o","f","t","w","a","r","e"," ","E","n","g","i","n","e","e","r">>
  \/ Len(lists.companies) > 0 /\ lists.companies[1].s # <<"N","o"," ","s","p","e","c","i","f","i","c"," ","c","o","m","p","a","n","y"," ","i","d","e","n","t","i","f","i","e","d">>
  \/ Len(lists.skills) > 0
  \/ Len(lists.projects) > 0 /\ lists.projects[1].s # <<"N","o"," ","s","p","e","c","i","f","i","c"," ","p","r","o","j","e","c","t","s"," ","i","d","e","n","t","i","f","i","e","d">>

\* the predicate of questions.filter: the text of q mentions an extracted company,
\* job title, skill or project name
personalized(q, lists) ==
  LET mentioned(questionText) ==
        LET mentions(s) == IsSubstr(toLowerWord(s), questionText)
        IN \/ \E i \in DOMAIN lists.companies :
                /\ lists.companies[i].s # <<"N","o"," ","s","p","e","c","i","f","i","c"," ","c","o","m","p","a","n","y"," ","i","d","e","n","t","i","f","i","e","d">>
                /\ mentions(lists.companies[i].s)
           \/ \E i \in DOMAIN lists.jobTitles :
                /\ lists.jobTitles[i].s # <<"S","o","f","t","w","a","r","e"," ","E","n","g","i","n","e","e","r">>
                /\ mentions(lists.jobTitles[i].s)
           \/ \E i \in DOMAIN lists.skills : mentions(lists.skills[i].s)
           \/ \E i \in DOMAIN lists.projects :
                /\ projectName(lists.projects[i].s) # <<"N","o"," ","s","p","e","c","i","f","i","c"," ","p","r","o","j","e","c","t","s"," ","i","d","e","n","t","i","f","i","e","d">>
                /\ mentions(projectName(lists.projects[i].s))
  IN mentioned(toLowerWord(q.question.s))

\* result.questions || [] of a response whose content parses to an object with an
\* array of questions; <<>> for every other response
questionsOf(response) ==
  IF ContentThrows(response) THEN <<>>
  ELSE IF response.content.k # "json" THEN <<>>
  ELSE LET listed == OrElse(Get(response.content.val, "questions"), Arr(<<>>))
       IN IF listed.t # "arr" THEN <<>> ELSE listed.a

\* generateInterviewQuestions from the return of its call of callMoonshotAPI:
\* [fallback |-> TRUE] when it goes on to return what the fallback generator
\* returns, else the questions it returns
generateInterviewQuestions(lists, response) ==
  LET UseFallback == [fallback |-> TRUE, questions |-> <<>>]
      lacks(tips, word) == ~\E i \in DOMAIN tips : IsSubstr(word, tips[i].s)
      enhance(q) ==
        [q EXCEPT !.tips =
           Arr(q.tips.a
               \o (IF q.category = Str(<<"T","e","c","h","n","i","c","a","l">>) /\ lacks(q.tips.a, <<"e","x","a","m","p","l","e">>)
                   THEN <<Str(<<"P","r","e","p","a","r","e"," ","a"," ","s","p","e","c","i","f","i","c"," ","c","o","d","e"," ","o","r"," ","i","m","p","l","e","m","e","n","t","a","t","i","o","n"," ","e","x","a","m","p","l","e"," ","t","o"," ","i","l","l","u","s","t","r","a","t","e"," ","y","o","u","r"," ","a","n","s","w","e","r">>)>>
                   ELSE <<>>)
               \o (IF q.category = Str(<<"B","e","h","a","v","i","o","r","a","l">>) /\ lacks(q.tips.a, <<"S","T","A","R">>)
                   THEN <<Str(<<"U","s","e"," ","t","h","e"," ","S","T","A","R"," ","m","e","t","h","o","d",":"," ","S","i","t","u","a","t","i","o","n",","," ","T","a","s","k",","," ","A","c","t","i","o","n",","," ","R","e","s","u","l","t">>)>>
                   ELSE <<>>))]
      enhanceThrows(q) ==
        q.category \in {Str(<<"T","e","c","h","n","i","c","a","l">>), Str(<<"B","e","h","a","v","i","o","r","a","l">>)} /\ q.tips.t # "arr"
      gate(items) ==
        IF \E i \in DOMAIN items : items[i].question.t # "str"
        THEN UseFallback    \* q.question.toLowerCase() raises a TypeError
        ELSE IF 10 * Cardinality({i \in DOMAIN items : personalized(items[i], lists)})
                  < 7 * Len(items)
        THEN UseFallback
        ELSE IF \E i \in DOMAIN items : enhanceThrows(items[i])
        THEN UseFallback    \* question.tips.some raises a TypeError
        ELSE IF Len(items) < 10
        THEN UseFallback    \* generateFallbackInterviewQuestions(...) is a promise: its
                            \* .questions is undefined and .filter raises a TypeError
        ELSE [fallback |-> FALSE,
              questions |-> Slice([i \in DOMAIN items |-> enhance(items[i])], 15)]
      check(listed) ==
        IF listed.t # "arr" THEN UseFallback    \* questions.filter is not a function
        ELSE IF listed.a = <<>> THEN UseFallback
        ELSE gate(listed.a)
      validate(content) ==
        IF content.k = "empty" THEN UseFallback
        ELSE IF content.k # "json" THEN UseFallback             \* JSON.parse raises
        ELSE IF PropertyThrows(content.val) THEN UseFallback    \* result.questions raises
        ELSE check(OrElse(Get(content.val, "questions"), Arr(<<>>)))
  IN IF ContentThrows(response) THEN UseFallback ELSE validate(response.content)

----------------------------------------------------------------------------
(* Inputs of generateInterviewQuestions *)

\* JSON values of answers to the question prompt
QuestionValues ==
  LET \* n questions as the AI words them, the first p of them about the candidate
      AIQuestions(n, p) ==
      [i \in 1..n |->
         Question(Str(IF i % 3 = 1 THEN <<"T","e","c","h","n","i","c","a","l">> ELSE IF i % 3 = 2 THEN <<"B","e","h","a","v","i","o","r","a","l">> ELSE <<"G","e","n","e","r","a","l">>),
                  Str(IF i <= p THEN <<"T","e","l","l"," ","m","e"," ","a","b","o","u","t"," ","R","e","a","c","t"," ","p","r","o","g","r","a","m","m","i","n","g"," ","a","t"," ","A","c","m","e"," ","C","o","r","p">>
                      ELSE <<"W","h","y"," ","d","o"," ","y","o","u"," ","w","a","n","t"," ","t","h","i","s"," ","r","o","l","e","?">>),
                  Arr(IF i % 2 = 0 THEN <<Str(<<"G","i","v","e"," ","a","n"," ","e","x","a","m","p","l","e">>)>> ELSE <<>>))]
  IN
  { Obj([EmptyObj EXCEPT !.questions = Arr(AIQuestions(np[1], np[2]))]) :
      np \in {<<12, 12>>, <<12, 5>>, <<16, 16>>, <<2, 2>>, <<10, 7>>, <<10, 6>>} }
  \cup
  { Obj(EmptyObj), Null,
    Obj([EmptyObj EXCEPT !.questions = Str(<<"n","o","n","e">>)]),
    Obj([EmptyObj EXCEPT !.questions = Arr(<<Question(Str(<<"G","e","n","e","r","a","l">>), Undef, Arr(<<>>))>>)]),
    Obj([EmptyObj EXCEPT !.questions =
           Arr([i \in 1..10 |-> Question(Str(<<"T","e","c","h","n","i","c","a","l">>), Str(<<"D","e","s","c","r","i","b","e"," ","y","o","u","r"," ","R","e","a","c","t"," ","w","o","r","k">>), Undef)])]) }

\* how the five extraction calls of one pass end: the outcome of each call and what
\* the line scans of the catch branches find
ProfileAnswers(withKey) ==
  LET Same(outcome, found) ==
        [jobTitles |-> outcome, companies |-> outcome, skills |-> outcome,
         achievements |-> outcome, projects |-> outcome, found |-> found]
      List(items) == Ok(ChatResponse(JsonText(Arr(items))))
  IN IF ~withKey THEN {Same(NoKey, <<>>)}
     ELSE { Same(Ok(NoChoices), <<>>),
            Same(Ok(NoChoices), <<Str(<<"A","c","m","e"," ","C","o","r","p">>), Str(<<"R","e","a","c","t">>)>>),
            Same(List(<<>>), <<>>),
            Same([k |-> "network_error"], <<>>),
            [Same(List(<<>>), <<>>) EXCEPT !.skills = List(<<Str(<<"R","e","a","c","t">>)>>)],
            [jobTitles |-> List(<<Str(<<"S","o","f","t","w","a","r","e"," ","E","n","g","i","n","e","e","r">>)>>),
             companies |-> List(<<Str(<<"N","o"," ","s","p","e","c","i","f","i","c"," ","c","o","m","p","a","n","y"," ","i","d","e","n","t","i","f","i","e","d">>)>>),
             skills |-> List(<<>>),
             achievements |-> List(<<>>),
             projects |-> List(<<Str(<<"N","o"," ","s","p","e","c","i","f","i","c"," ","p","r","o","j","e","c","t","s"," ","i","d","e","n","t","i","f","i","e","d">>)>>),
             found |-> <<>>],
            [jobTitles |-> List(<<Str(<<"S","e","n","i","o","r"," ","D","e","v","e","l","o","p","e","r">>), Str(<<"A","n","a","l","y","s","t">>)>>),
             companies |-> List(<<Str(<<"A","c","m","e"," ","C","o","r","p">>), Str(<<"G","l","o","b","e","x">>)>>),
             skills |-> List(<<Str(<<"R","e","a","c","t">>), Str(<<"P","y","t","h","o","n">>), Str(<<"M","y","S","Q","L">>), Str(<<"A","W","S">>)>>),
             achievements |-> List(<<Str(<<"C","u","t"," ","c","o","s","t","s"," ","b","y"," ","3","0","%">>)>>),
             projects |-> List(<<Str(<<"P","o","r","t","a","l",":"," ","a"," ","w","e","b"," ","a","p","p">>), Str(<<"S","h","o","p">>)>>),
             found |-> <<>>],
            \* the company call fails, the other four are answered
            [jobTitles |-> List(<<Str(<<"A","n","a","l","y","s","t">>)>>),
             companies |-> [k |-> "network_error"],
             skills |-> List(<<Str(<<"P","y","t","h","o","n">>)>>),
             achievements |-> Ok(ChatResponse(Prose)),
             projects |-> List(<<Str(<<"S","h","o","p">>)>>),
             found |-> <<>>] }

\* the five extractions under one try: a call that fails sends all five to their
\* catch branches
extractProfileTogether(answers) ==
  LET failed == \E field \in {"jobTitles", "companies", "skills", "achievements", "projects"} :
                  answers[field].k # "ok"
      response(field) == IF failed THEN NoChoices ELSE callMoonshotAPI(answers[field])
  IN [jobTitles |-> extractJobTitles(response("jobTitles"), answers.found).a,
      companies |-> extractCompanies(response("companies"), answers.found).a,
      skills |-> extractSkills(response("skills"), answers.found).a,
      achievements |-> extractAchievements(response("achievements"), answers.found).a,
      projects |-> extractProjects(response("projects"), answers.found).a]

\* the lists the five extractors return for answers
extractProfile(answers) ==
  [jobTitles |-> extractJobTitles(callMoonshotAPI(answers.jobTitles), answers.found).a,
   companies |-> extractCompanies(callMoonshotAPI(answers.companies), answers.found).a,
   skills |-> extractSkills(callMoonshotAPI(answers.skills), answers.found).a,
   achievements |-> extractAchievements(callMoonshotAPI(answers.achievements), answers.found).a,
   projects |-> extractProjects(callMoonshotAPI(answers.projects), answers.found).a]

----------------------------------------------------------------------------
(* The dashboard: ATSOverview and KeywordAnalysis

   The keywords of the model consist of letters, so that a keyword in a regular
   expression matches itself. *)

\* calculatedScore once the effect of ATSOverview has run for analysis
ATSOverview(analysis) ==
  LET dynamicScore == WeightedRound(analysis.formatScore, 30, analysis.keywordScore, 40,
                                    analysis.contentScore, 30)
      bonus(found, missing) ==
        \* keywordMatchPercentage >= 80; 0 / 0 is NaN, which is not >= 80
        IF found + missing > 0 /\ 100 * found >= 80 * (found + missing) THEN Num(5) ELSE Num(0)
      finalScore ==
        IF Truthy(analysis.keywordMatches) /\ Truthy(analysis.missingKeywords)
        THEN Plus(dynamicScore, bonus(Len(analysis.keywordMatches.a),
                                      Len(analysis.missingKeywords.a)))
        ELSE dynamicScore
  IN MathMin(finalScore, Num(100))

\* the missing keywords that the memo partialMatches of KeywordAnalysis marks
\* "partial", for an analysis and the original text of its resume
partialMatches(analysis, originalText) ==
  LET matches(tokens) ==
        LET \* keyword.toLowerCase().replace(/s$|ing$|ed$/, '')
            keywordBase(keyword) ==
              LET strip(w) ==
              IF IsSuffix(<<"i","n","g">>, w) THEN SubSeq(w, 1, Len(w) - 3)
              ELSE IF IsSuffix(<<"e","d">>, w) THEN SubSeq(w, 1, Len(w) - 2)
              ELSE IF IsSuffix(<<"s">>, w) THEN SubSeq(w, 1, Len(w) - 1)
              ELSE w
              IN strip(toLowerWord(keyword))
            \* new RegExp(`\\b${part}\\b`, 'i').test(resumeLower)
            wholeWord(part) == part \in tokens
            \* new RegExp(`\\b${keywordBase}\\w*\\b`, 'i').test(resumeLower)
            beginsWord(base) == \E token \in tokens : IsPrefix(base, token)
            partial(keyword) ==
              IF \E i \in DOMAIN keyword.s : keyword.s[i] = " "
              THEN \E part \in Range(SplitSpace(toLowerWord(keyword.s))) :
                     Len(part) > 3 /\ wholeWord(part)
              ELSE Len(keywordBase(keyword.s)) >= 4 /\ beginsWord(keywordBase(keyword.s))
        IN Slice(SelectSeq(analysis.missingKeywords.a, partial), 8)
      \* the maximal runs of word characters of resumeLower
      tokensOf(resumeLower) ==
        UNION {Range(SplitNonWord(resumeLower[i].w)) : i \in DOMAIN resumeLower}
  IN IF ~Truthy(analysis.missingKeywords) \/ originalText = EmptyText THEN <<>>
     ELSE matches(tokensOf(toLowerCase(originalText)))

----------------------------------------------------------------------------
(* The operations as state machines: one step per stretch of code between awaits
   of the AI service *)

NoCall == [purpose |-> "none"]
Pending(purpose) == [purpose |-> purpose]

AnalyzerEntries == {"analyzeResume", "analyzeResumeWithJob"}

\* the resume ids a request names run up to MaxResumeId; only resume 1 is stored
MaxResumeId == 2

\* the calls of analyzeFormat by other callers during one operation
MaxFormatCalls == 2

RequestsOf(r) ==
  CASE r = "upload" ->
         {[file |-> f] : f \in {[k |-> "none"], [k |-> "empty"], [k |-> "unparseable"]}
                               \cup {[k |-> "file", text |-> t] : t \in RawTexts}}
    [] r \in {"analyze", "fresh-analysis"} ->
         {[id |-> i, jobDescription |-> j] : i \in 1..MaxResumeId, j \in JobTexts \cup {NoJob}}

Init ==
  /\ route \in {"none", "upload", "analyze", "fresh-analysis"}
  /\ apiKey \in BOOLEAN
  /\ call = NoCall
  /\ formatCalls = <<>>
  /\ formatAnalysis = NoValue
  /\ contentAnalysis = NoValue
  /\ keywordAnalysis = NoValue
  /\ extracted = NoValue
  /\ report = NoValue
  /\ raised = FALSE
  /\ settled = [content |-> NoValue, keywords |-> NoValue, extract |-> NoValue,
                questions |-> NoValue]
  /\ answered = NoValue
  /\ profile = NoValue
  /\ fallbackProfile = NoValue
  /\ dashboard = NoValue
  /\ other = NoValue
  /\ aiQuestions = <<>>
  /\ questions = <<>>
  /\ existingAnalysis = NoValue
  /\ res = [status |-> 0]
  /\ IF route = "none"
     THEN /\ pc = "start"
          /\ entry \in AnalyzerEntries \cup ExtractEntries \cup {"generateInterviewQuestions"}
          \* generateInterviewQuestions also runs on a text that mentions a lead
          /\ resumeText \in (IF entry = "generateInterviewQuestions"
                             THEN StoredTexts \cup {TextOf(<<<<"T","e","a","m">>, <<"l","e","a","d">>, <<"R","e","a","c","t">>>>)}
                             ELSE ResumeTexts)
          \* the optional parameter jobTitle
          /\ jobTitle \in (IF entry = "generateInterviewQuestions"
                           THEN {Undef, Str(<<"D","a","t","a"," ","E","n","g","i","n","e","e","r">>)}
                           ELSE {Undef})
          /\ jobDescription \in (IF entry = "analyzeResumeWithJob" THEN JobTexts ELSE {NoJob})
          /\ req = [k |-> "none"]
          /\ resumes = <<>>
          /\ analyses = <<>>
     ELSE /\ pc = "request"
          /\ entry = "none"
          /\ jobTitle = Undef
          /\ resumeText = <<>>
          /\ jobDescription = NoJob
          /\ req \in RequestsOf(route)
          /\ \E text \in StoredTexts :
               /\ resumes = <<text>>
               /\ analyses \in {<<>>, <<PriorAnalysisOf(text)>>}

Respond(status, message) ==
  /\ res' = [status |-> status, message |-> message]
  /\ pc' = "responded"

\* a route calls the analyzer
CallAnalyzer(name, text, job) ==
  /\ entry' = name
  /\ resumeText' = text
  /\ jobDescription' = job
  /\ pc' = "start"

\* POST /api/resumes/upload up to the call of analyzeResume
Upload ==
  /\ pc = "request"
  /\ route = "upload"
  /\ LET extraction == extractText(req.file)
     IN IF req.file.k = "none"
        THEN Respond(400, "No file uploaded")
             /\ UNCHANGED <<entry, resumeText, jobDescription, resumes, analyses>>
        ELSE IF req.file.k = "empty"
        THEN Respond(400, "Empty file received")
             /\ UNCHANGED <<entry, resumeText, jobDescription, resumes, analyses>>
        ELSE IF ~extraction.ok
        THEN Respond(400, "Failed to extract text from document")
             /\ UNCHANGED <<entry, resumeText, jobDescription, resumes, analyses>>
        ELSE IF IsBlank(extraction.text)
        THEN Respond(400, "Could not extract text from the uploaded file")
             /\ UNCHANGED <<entry, resumeText, jobDescription, resumes, analyses>>
        ELSE /\ analyses' = SelectSeq(analyses, LAMBDA r : r.resumeId \notin DOMAIN resumes)
             /\ resumes' = Append(resumes, extraction.text)
             /\ CallAnalyzer("analyzeResume", extraction.text, NoJob)
             /\ UNCHANGED res
  /\ UNCHANGED <<apiKey, call, extracted, settled, formatAnalysis, contentAnalysis,
                 keywordAnalysis, report, raised, formatCalls, route, req,
                 existingAnalysis>>
  /\ UNCHANGED interviewVars
  /\ UNCHANGED clientVars

\* POST /api/resumes/:id/analyze up to the call of analyzeResumeWithJob
Analyze ==
  /\ pc = "request"
  /\ route = "analyze"
  /\ IF req.jobDescription = NoJob
     THEN Respond(400, "Job description is required")
          /\ UNCHANGED <<entry, resumeText, jobDescription, existingAnalysis>>
     ELSE IF req.id \notin DOMAIN resumes
     THEN Respond(404, "Resume not found")
          /\ UNCHANGED <<entry, resumeText, jobDescription, existingAnalysis>>
     ELSE /\ existingAnalysis' = getAnalysis(analyses, req.id)
          /\ CallAnalyzer("analyzeResumeWithJob", resumes[req.id], req.jobDescription)
          /\ UNCHANGED res
  /\ UNCHANGED <<apiKey, call, extracted, settled, formatAnalysis, contentAnalysis,
                 keywordAnalysis, report, raised, formatCalls, route, req, resumes,
                 analyses>>
  /\ UNCHANGED interviewVars
  /\ UNCHANGED clientVars

\* POST /api/resumes/:id/fresh-analysis up to the call of the analyzer
FreshAnalysis ==
  /\ pc = "request"
  /\ route = "fresh-analysis"
  /\ IF req.id \notin DOMAIN resumes
     THEN Respond(404, "Resume not found")
          /\ UNCHANGED <<entry, resumeText, jobDescription, analyses>>
     ELSE /\ analyses' = deleteAnalysisByResumeId(analyses, req.id)
          /\ IF IsBlank(resumes[req.id])
             THEN Respond(400, "No text content found in resume")
                  /\ UNCHANGED <<entry, resumeText, jobDescription>>
             ELSE /\ IF req.jobDescription # NoJob
                     THEN CallAnalyzer("analyzeResumeWithJob", resumes[req.id],
                                       req.jobDescription)
                     ELSE CallAnalyzer("analyzeResume", resumes[req.id], NoJob)
                  /\ UNCHANGED res
  /\ UNCHANGED <<apiKey, call, extracted, settled, formatAnalysis, contentAnalysis,
                 keywordAnalysis, report, raised, formatCalls, route, req, resumes,
                 existingAnalysis>>
  /\ UNCHANGED interviewVars
  /\ UNCHANGED clientVars

\* analyzeResume / analyzeResumeWithJob up to the await of analyzeResumeContent
AnalyzeStart ==
  /\ pc = "start"
  /\ entry \in AnalyzerEntries
  /\ formatAnalysis' = FormatAnalysisOf[resumeText]
  /\ formatCalls' = Append(formatCalls, FormatAnalysisOf[resumeText])
  /\ call' = Pending("content")
  /\ pc' = "awaitContent"
  /\ UNCHANGED <<apiKey, extracted, settled, entry, resumeText, jobDescription,
                 contentAnalysis, keywordAnalysis, report, raised, routeVars>>
  /\ UNCHANGED interviewVars
  /\ UNCHANGED clientVars

\* another caller invokes analyzeFormat on the same text, between any two steps of the
\* operation in progress
AnalyzeFormatCall ==
  /\ route = "none"
  /\ Len(formatCalls) < MaxFormatCalls
  /\ formatCalls' = Append(formatCalls, FormatAnalysisOf[resumeText])
  /\ UNCHANGED <<pc, apiKey, call, extracted, settled, entry, resumeText, jobDescription,
                 formatAnalysis, contentAnalysis, keywordAnalysis, report, raised,
                 routeVars>>
  /\ UNCHANGED interviewVars
  /\ UNCHANGED clientVars

\* an extract* operation up to its await of callMoonshotAPI
ExtractStart ==
  /\ pc = "start"
  /\ entry \in ExtractEntries
  /\ call' = Pending("extract")
  /\ pc' = "awaitExtract"
  /\ UNCHANGED <<apiKey, extracted, settled, analyzerVars, routeVars>>
  /\ UNCHANGED interviewVars
  /\ UNCHANGED clientVars

\* how a call ended, for the record kept in settled
KindOf(outcome) ==
  IF outcome.k # "ok" THEN outcome.k
  ELSE IF ContentThrows(outcome.data) THEN "no_choices"
  ELSE outcome.data.content.k

\* the content call returns with outcome: analyzeResume runs to its return,
\* analyzeResumeWithJob to its next await
ContentReturns(outcome) ==
  /\ pc = "awaitContent"
  /\ LET content == analyzeResumeContent(resumeText, callMoonshotAPI(outcome))
     IN /\ contentAnalysis' = content
        /\ IF entry = "analyzeResume"
           THEN /\ \E draw \in RandomDraws :
                     report' = analyzeResume(formatAnalysis, content, draw)
                /\ call' = NoCall
                /\ pc' = "returned"
           ELSE /\ report' = report
                /\ call' = Pending("keywords")
                /\ pc' = "awaitKeywords"
  /\ UNCHANGED <<keywordAnalysis, raised>>
  /\ settled' = [settled EXCEPT !.content = KindOf(outcome)]
  /\ UNCHANGED <<apiKey, extracted, entry, resumeText, jobDescription, formatAnalysis,
                 formatCalls, routeVars>>
  /\ UNCHANGED interviewVars
  /\ UNCHANGED clientVars

\* the keyword call returns with outcome; analyzeResumeWithJob runs to its end
KeywordsReturn(outcome) ==
  /\ pc = "awaitKeywords"
  /\ LET keyword == compareWithJobDescription(resumeText, jobDescription,
                                              callMoonshotAPI(outcome))
     IN /\ keywordAnalysis' = keyword
        /\ IF analyzeResumeWithJobThrows(contentAnalysis)
           THEN raised' = TRUE /\ report' = NoValue
           ELSE raised' = FALSE
                /\ report' = analyzeResumeWithJob(formatAnalysis, contentAnalysis, keyword)
  /\ settled' = [settled EXCEPT !.keywords = KindOf(outcome)]
  /\ call' = NoCall
  /\ pc' = "returned"
  /\ UNCHANGED <<apiKey, extracted, entry, resumeText, jobDescription, formatAnalysis,
                 contentAnalysis, formatCalls, routeVars>>
  /\ UNCHANGED interviewVars
  /\ UNCHANGED clientVars

\* the call of an extract* operation returns with outcome; the operation returns
ExtractReturns(outcome) ==
  /\ pc = "awaitExtract"
  /\ \E found \in ScanResults :
       extracted' = extractOf(entry, callMoonshotAPI(outcome), found)
  /\ settled' = [settled EXCEPT !.extract = KindOf(outcome)]
  /\ call' = NoCall
  /\ pc' = "returned"
  /\ UNCHANGED <<apiKey, analyzerVars, routeVars>>
  /\ UNCHANGED interviewVars
  /\ UNCHANGED clientVars

\* the AI calls that /fresh-analysis makes after saving (generateInterviewQuestions,
\* extractJobTitles, extractProjects, extractSkills) have returned; the questions and
\* the extracted lists of the response body are left out
InterviewReturns(outcome) ==
  /\ pc = "awaitInterview"
  /\ LET \* the row createAnalysis returned to the handler
         savedAnalysis ==
           Row(req.id, IF req.jobDescription # NoJob THEN req.jobDescription ELSE Null,
               report, report.improvements)
     IN res' = [status |-> 200,
                live_ats_score |-> savedAnalysis.atsScore,
                current_keyword_analysis |->
                  [matches |-> OrElse(savedAnalysis.keywordMatches, Arr(<<>>)),
                   missing |-> OrElse(savedAnalysis.missingKeywords, Arr(<<>>)),
                   score |-> savedAnalysis.keywordScore]]
  /\ call' = NoCall
  /\ pc' = "responded"
  /\ UNCHANGED <<apiKey, extracted, settled, analyzerVars, route, req, resumes, analyses,
                 existingAnalysis>>
  /\ UNCHANGED interviewVars
  /\ UNCHANGED clientVars

\* generateInterviewQuestions up to its awaits of the five extractors
InterviewStart ==
  /\ pc = "start"
  /\ entry = "generateInterviewQuestions"
  /\ pc' = "awaitProfile"
  /\ UNCHANGED <<apiKey, call, extracted, settled, analyzerVars, interviewVars, routeVars>>
  /\ UNCHANGED clientVars

\* the five extractors have returned: generateInterviewQuestions tests hasValidData
\* and either calls the AI for questions or turns to the fallback generator
ProfileExtracted ==
  /\ pc = "awaitProfile"
  /\ \E answers \in ProfileAnswers(apiKey) :
       /\ answered' = answers
       /\ profile' = extractProfile(answers)
       /\ IF hasValidData(extractProfile(answers))
          THEN call' = Pending("questions") /\ pc' = "awaitQuestions"
          ELSE call' = NoCall /\ pc' = "awaitFallback"
  /\ UNCHANGED <<apiKey, extracted, settled, analyzerVars, jobTitle, fallbackProfile,
                 aiQuestions, questions, routeVars>>
  /\ UNCHANGED clientVars

\* the question call returns with outcome: generateInterviewQuestions returns the
\* AI's questions or turns to the fallback generator (in the padding branch a first
\* call of the generator is left running, its promise dropped)
QuestionsReturn(outcome) ==
  /\ pc = "awaitQuestions"
  /\ LET result == generateInterviewQuestions(profile, callMoonshotAPI(outcome))
     IN IF result.fallback
        THEN pc' = "awaitFallback" /\ questions' = questions
        ELSE pc' = "returned" /\ questions' = result.questions
  /\ aiQuestions' = questionsOf(callMoonshotAPI(outcome))
  /\ settled' = [settled EXCEPT !.questions = KindOf(outcome)]
  /\ call' = NoCall
  /\ UNCHANGED <<apiKey, extracted, analyzerVars, jobTitle, answered, profile,
                 fallbackProfile, routeVars>>
  /\ UNCHANGED clientVars

\* the five extractors called by generateFallbackInterviewQuestions have returned:
\* the generator returns, and so does generateInterviewQuestions
FallbackGenerated ==
  /\ pc = "awaitFallback"
  /\ \E answers \in ProfileAnswers(apiKey) :
       /\ fallbackProfile' = extractProfile(answers)
       /\ questions' = generateFallbackInterviewQuestions(resumeText, jobTitle,
                                                          extractProfile(answers))
  /\ pc' = "returned"
  /\ UNCHANGED <<apiKey, call, extracted, settled, analyzerVars, jobTitle, answered,
                 profile, aiQuestions, routeVars>>
  /\ UNCHANGED clientVars

\* the contents a well-formed answer to the pending prompt can carry
ContentsFor(purpose) ==
  CASE purpose = "content" -> ContentsOf(ContentValues)
    [] purpose = "keywords" -> ContentsOf(KeywordValues)
    [] purpose = "extract" -> ExtractContents
    [] purpose = "questions" -> ContentsOf(QuestionValues)
    [] purpose = "interview" -> {Prose}

Returns(outcome) ==
  \/ ContentReturns(outcome)
  \/ KeywordsReturn(outcome)
  \/ ExtractReturns(outcome)
  \/ QuestionsReturn(outcome)
  \/ InterviewReturns(outcome)

\* callMoonshotAPI without a key: the call fails before any request is sent
CallWithoutKey ==
  /\ call # NoCall
  /\ ~apiKey
  /\ Returns(NoKey)

\* the request of callMoonshotAPI settles: fetch resolves or rejects
FetchSettles ==
  /\ call # NoCall
  /\ apiKey
  /\ \E outcome \in FetchOutcomes(ContentsFor(call.purpose)) : Returns(outcome)

\* POST /api/resumes/upload from the return of analyzeResume
UploadFinish ==
  /\ pc = "returned"
  /\ route = "upload"
  /\ LET analysisData == Row(Len(resumes), Null, report, report.improvements)
     IN IF ~raised /\ CanCreateAnalysis(analysisData)
        THEN /\ analyses' = Append(analyses, analysisData)
             /\ res' = [status |-> 200, analysis |-> analysisData]
             /\ pc' = "responded"
        ELSE /\ Respond(500, "Failed to save resume data")
             /\ UNCHANGED analyses
  /\ UNCHANGED <<apiKey, call, extracted, settled, analyzerVars, route, req, resumes,
                 existingAnalysis>>
  /\ UNCHANGED interviewVars
  /\ UNCHANGED clientVars

\* POST /api/resumes/:id/analyze from the return of analyzeResumeWithJob
AnalyzeFinish ==
  /\ pc = "returned"
  /\ route = "analyze"
  /\ IF raised
     THEN /\ Respond(500, "Failed to analyze resume")
          /\ UNCHANGED analyses
     ELSE LET improvements ==
                IF Truthy(existingAnalysis)
                THEN OrElse(existingAnalysis.row.improvements, report.improvements)
                ELSE report.improvements
              analysisData == Row(req.id, req.jobDescription, report, improvements)
              remaining == IF Truthy(existingAnalysis)
                           THEN deleteAnalysisByResumeId(analyses, req.id)
                           ELSE analyses
          IN IF CanCreateAnalysis(analysisData)
             THEN /\ analyses' = Append(remaining, analysisData)
                  /\ res' = [status |-> 200, analysis |-> analysisData]
                  /\ pc' = "responded"
             ELSE /\ analyses' = remaining
                  /\ Respond(500, "Failed to analyze resume")
  /\ UNCHANGED <<apiKey, call, extracted, settled, analyzerVars, route, req, resumes,
                 existingAnalysis>>
  /\ UNCHANGED interviewVars
  /\ UNCHANGED clientVars

\* POST /api/resumes/:id/fresh-analysis from the return of the analyzer to the await
\* of generateInterviewQuestions
FreshAnalysisFinish ==
  /\ pc = "returned"
  /\ route = "fresh-analysis"
  /\ LET analysisData ==
           Row(req.id, IF req.jobDescription # NoJob THEN req.jobDescription ELSE Null,
               report, report.improvements)
     IN IF ~raised /\ CanCreateAnalysis(analysisData)
        THEN /\ analyses' = Append(analyses, analysisData)
             /\ call' = Pending("interview")
             /\ pc' = "awaitInterview"
             /\ UNCHANGED res
        ELSE /\ Respond(500, "Failed to generate fresh analysis")
             /\ UNCHANGED <<analyses, call>>
  /\ UNCHANGED <<apiKey, extracted, settled, analyzerVars, route, req, resumes,
                 existingAnalysis>>
  /\ UNCHANGED interviewVars
  /\ UNCHANGED clientVars

\* the resume texts of the tables when the dashboard asks for an analysis
DashboardTexts ==
  { TextOf(<<<<"M","a","n","a","g","i","n","g">>, <<"t","e","a","m","s">>, <<"u","s","i","n","g">>, <<"d","a","t","a","b","a","s","e","s">>>>),
    TextOf(<<<<"m","a","n","a","g","i","n","g">>, <<"t","e","s","t","i","n","g">>, <<"p","l","a","n","n","i","n","g">>, <<"d","e","s","i","g","n","i","n","g">>, <<"b","u","i","l","d","i","n","g">>, <<"d","e","p","l","o","y","i","n","g">>,
             <<"s","c","a","l","i","n","g">>, <<"l","e","a","d","i","n","g">>, <<"t","r","a","i","n","i","n","g">>>>),
    MakeResume(4, TRUE, TRUE, 5, TRUE, 290),
    EmptyText }

\* the analyses analyzeResumeWithJob produces for a text and the keyword lists of an
\* AI answer, as /analyze stores them
DashboardAnalyses(text) ==
  LET \* the lists of missing keywords
      KeywordLists ==
      { <<>>,
        <<Str(<<"m","a","n","a","g","e","d">>), Str(<<"i","s">>), Str(<<"d","o","c","k","e","r">>)>>,
        <<Str(<<"T","e","s","t","s">>), Str(<<"u","s","e","s">>), Str(<<"d","a","t","a">>), Str(<<"m","a","c","h","i","n","e"," ","l","e","a","r","n","i","n","g">>)>>,
        <<Str(<<"m","a","n","a","g","e","d">>), Str(<<"t","e","s","t","e","d">>), Str(<<"p","l","a","n","n","e","d">>), Str(<<"d","e","s","i","g","n","s">>), Str(<<"b","u","i","l","d","s">>),
          Str(<<"d","e","p","l","o","y","e","d">>), Str(<<"s","c","a","l","e","d">>), Str(<<"l","e","a","d","s">>), Str(<<"t","r","a","i","n","e","d">>)>> }
  IN
  { Row(1, CHOOSE job \in JobTexts : TRUE,
        analyzeResumeWithJob(analyzeFormat(text), generateFallbackAnalysis(text),
                             [keywordMatches |-> Arr(found), missingKeywords |-> Arr(missing),
                              keywordScore |-> Num(score),
                              improvementSuggestions |-> Arr(<<>>)]),
        generateFallbackAnalysis(text).improvements) :
      found \in {<<>>, <<Str(<<"r","e","a","c","t">>)>>}, missing \in KeywordLists,
      score \in {40, 90} }

\* GET /api/resumes/:id/analysis for a stored resume that has an analysis, and the
\* dashboard rendering the answer: the effect of ATSOverview and the memo
\* partialMatches of KeywordAnalysis have run
ShowAnalysis ==
  /\ pc = "responded" \/ (route = "analysis" /\ pc = "request")
  /\ dashboard = NoValue
  /\ pc' = "responded"
  /\ \E id \in DOMAIN resumes :
       /\ getAnalysis(analyses, id) # Undef
       /\ dashboard' = [analysis |-> getAnalysis(analyses, id).row,
                        originalText |-> resumes[id],
                        calculatedScore |-> ATSOverview(getAnalysis(analyses, id).row),
                        partialMatches |->
                          partialMatches(getAnalysis(analyses, id).row, resumes[id])]
  /\ UNCHANGED <<apiKey, call, extracted, settled, analyzerVars, interviewVars,
                 routeVars, other>>

Next ==
  \/ Upload
  \/ Analyze
  \/ FreshAnalysis
  \/ AnalyzeStart
  \/ AnalyzeFormatCall
  \/ ExtractStart
  \/ InterviewStart
  \/ ProfileExtracted
  \/ FallbackGenerated
  \/ CallWithoutKey
  \/ FetchSettles
  \/ UploadFinish
  \/ AnalyzeFinish
  \/ FreshAnalysisFinish
  \/ ShowAnalysis

Spec == Init /\ [][Next]_vars

\* the steps the program takes by itself; when a request to the AI service settles
\* is up to the service
ProgramStep ==
  \/ Upload
  \/ Analyze
  \/ FreshAnalysis
  \/ AnalyzeStart
  \/ ExtractStart
  \/ InterviewStart
  \/ (~apiKey /\ ProfileExtracted)
  \/ (~apiKey /\ FallbackGenerated)
  \/ CallWithoutKey
  \/ UploadFinish
  \/ AnalyzeFinish
  \/ FreshAnalysisFinish

\* termination does not depend on the text: the fair behaviours start from the
\* stored texts
FairInit == Init /\ (route = "none" => resumeText \in StoredTexts)

FairSpec ==
  /\ FairInit
  /\ [][Next]_vars
  /\ WF_vars(ProgramStep)

\* the dashboard asks for the analysis of the stored resume
DashboardInit ==
  /\ route = "analysis"
  /\ pc = "request"
  /\ req = [id |-> 1]
  /\ \E text \in DashboardTexts : \E analysis \in DashboardAnalyses(text) :
       resumes = <<text>> /\ analyses = <<analysis>>
  /\ apiKey \in BOOLEAN
  /\ entry = "none"
  /\ resumeText = <<>>
  /\ jobDescription = NoJob
  /\ jobTitle = Undef
  /\ call = NoCall
  /\ formatCalls = <<>>
  /\ formatAnalysis = NoValue
  /\ contentAnalysis = NoValue
  /\ keywordAnalysis = NoValue
  /\ extracted = NoValue
  /\ report = NoValue
  /\ raised = FALSE
  /\ settled = [content |-> NoValue, keywords |-> NoValue, extract |-> NoValue,
                questions |-> NoValue]
  /\ answered = NoValue
  /\ profile = NoValue
  /\ fallbackProfile = NoValue
  /\ aiQuestions = <<>>
  /\ questions = <<>>
  /\ dashboard = NoValue
  /\ other = NoValue
  /\ existingAnalysis = NoValue
  /\ res = [status |-> 0]

DashboardSpec == DashboardInit /\ [][ShowAnalysis]_vars

\* the operation invoked has returned, or the request has been answered
\* the other request, POST /api/resumes/1/analyze or /fresh-analysis with a job
\* description, up to its call of the analyzer: /analyze reads the stored analysis,
\* /fresh-analysis deletes the analyses of the resume
OtherRequest ==
  /\ other.pc = "request"
  /\ IF other.route = "analyze"
     THEN /\ other' = [other EXCEPT !.pc = "analyzing",
                                    !.existingAnalysis = getAnalysis(analyses, 1)]
          /\ UNCHANGED analyses
     ELSE /\ other' = [other EXCEPT !.pc = "analyzing"]
          /\ analyses' = deleteAnalysisByResumeId(analyses, 1)
  /\ UNCHANGED <<pc, apiKey, call, extracted, settled, analyzerVars, interviewVars, route,
                 req, resumes, existingAnalysis, res, dashboard>>

\* the other request from the return of analyzeResumeWithJob, whose AI calls both
\* failed, to the saving of its analysis
OtherFinish ==
  /\ other.pc = "analyzing"
  /\ LET analysis == analyzeResumeWithJob(FormatAnalysisOf[resumes[1]],
                                          FallbackAnalysisOf[resumes[1]],
                                          FallbackKeywordAnalysisOf[resumes[1]][other.jobDescription])
         kept == other.route = "analyze" /\ Truthy(other.existingAnalysis)
         improvements == IF kept
                         THEN OrElse(other.existingAnalysis.row.improvements,
                                     analysis.improvements)
                         ELSE analysis.improvements
         analysisData == Row(1, other.jobDescription, analysis, improvements)
         remaining == IF kept THEN deleteAnalysisByResumeId(analyses, 1) ELSE analyses
     IN analyses' = IF CanCreateAnalysis(analysisData) THEN Append(remaining, analysisData)
                    ELSE remaining
  /\ other' = [other EXCEPT !.pc = "done"]
  /\ UNCHANGED <<pc, apiKey, call, extracted, settled, analyzerVars, interviewVars, route,
                 req, resumes, existingAnalysis, res, dashboard>>

\* two requests for resume 1 arrive together
RaceInit ==
  /\ route \in {"analyze", "fresh-analysis"}
  /\ pc = "request"
  /\ req = [id |-> 1, jobDescription |-> CHOOSE job \in JobTexts : TRUE]
  /\ other \in {[route |-> r, pc |-> "request", jobDescription |-> req.jobDescription,
                 existingAnalysis |-> Undef] : r \in {"analyze", "fresh-analysis"}}
  /\ \E text \in StoredTexts :
       /\ resumes = <<text>>
       /\ analyses \in {<<>>, <<PriorAnalysisOf(text)>>}
  /\ apiKey \in BOOLEAN
  /\ entry = "none"
  /\ resumeText = <<>>
  /\ jobDescription = NoJob
  /\ jobTitle = Undef
  /\ call = NoCall
  /\ formatCalls = <<>>
  /\ formatAnalysis = NoValue
  /\ contentAnalysis = NoValue
  /\ keywordAnalysis = NoValue
  /\ extracted = NoValue
  /\ report = NoValue
  /\ raised = FALSE
  /\ settled = [content |-> NoValue, keywords |-> NoValue, extract |-> NoValue,
                questions |-> NoValue]
  /\ answered = NoValue
  /\ profile = NoValue
  /\ fallbackProfile = NoValue
  /\ aiQuestions = <<>>
  /\ questions = <<>>
  /\ dashboard = NoValue
  /\ existingAnalysis = NoValue
  /\ res = [status |-> 0]

\* the steps of both handlers, in any order
RaceSpec ==
  /\ RaceInit
  /\ [][\/ Analyze
        \/ FreshAnalysis
        \/ AnalyzeStart
        \/ CallWithoutKey
        \/ FetchSettles
        \/ AnalyzeFinish
        \/ FreshAnalysisFinish
        \/ OtherRequest
        \/ OtherFinish]_vars

Completed == pc = "responded" \/ (route = "none" /\ pc = "returned")

----------------------------------------------------------------------------
(* Properties *)

\* C1: every report returned by analyzeResume or analyzeResumeWithJob has formatScore,
\* contentScore, keywordScore and atsScore each an integer in [0,100]
C1_ScoresAreIntegersInRange ==
  report # NoValue =>
    /\ IsIntIn(report.formatScore, 0, 100)
    /\ IsIntIn(report.contentScore, 0, 100)
    /\ IsIntIn(report.keywordScore, 0, 100)
    /\ IsIntIn(report.atsScore, 0, 100)

\* C2: in every report returned by analyzeResumeWithJob, atsScore is
\* round(0.25*formatScore + 0.35*contentScore + 0.40*keywordScore) over the fields of
\* that same report
C2_AtsScoreOfReportedScoresWithJob ==
  (entry = "analyzeResumeWithJob" /\ report # NoValue) =>
    report.atsScore = WeightedRound(report.formatScore, 25, report.contentScore, 35,
                                    report.keywordScore, 40)

\* C3: in every report returned by analyzeResume, atsScore is
\* round(0.30*formatScore + 0.40*contentScore + 0.30*keywordScore) over the fields of
\* that same report (n is the rounding of x when n <= x + 1/2 < n + 1; the rounding of
\* a sum with a term that is not a number is NaN), and keywordMatches and
\* missingKeywords are empty
C3_AtsScoreOfReportedScoresNoJob ==
  (entry = "analyzeResume" /\ report # NoValue) =>
    LET f == report.formatScore
        c == report.contentScore
        k == report.keywordScore
        ats == report.atsScore
    IN /\ IF IsNum(f) /\ IsNum(c) /\ IsNum(k)
          THEN /\ IsNum(ats)
               /\ ats.h % 2 = 0
               /\ 100 * ats.h <= 30 * f.h + 40 * c.h + 30 * k.h + 100
               /\ 30 * f.h + 40 * c.h + 30 * k.h + 100 < 100 * ats.h + 200
          ELSE ats = NaN
       /\ report.keywordMatches = Arr(<<>>)
       /\ report.missingKeywords = Arr(<<>>)

\* analyzeResume has returned a report whose three sub-scores differ
C3_Witness ==
  /\ entry = "analyzeResume"
  /\ pc = "returned"
  /\ report # NoValue
  /\ report.formatScore = Num(100)
  /\ report.contentScore = Num(72)
  /\ report.keywordScore = Num(76)

\* C4: when the AI call of analyzeResumeContent fails (missing key, network error,
\* non-2xx status, non-JSON body or content), the content report has contentScore
\* 60 + 15*[quantified markers] + 10*[bullets >= 5] + 10*[words >= 300] - 5*[words > 800]
\* and, for a resume without quantified markers, an improvement titled
\* "Add Quantified Achievements"
C4_FailureGivesHeuristicReport ==
  (contentAnalysis # NoValue
   /\ settled.content \in {"no_key", "network_error", "http_error", "bad_body", "prose"}) =>
    LET quantified == testQuantified(toLowerCase(resumeText))
        bullets == bulletCountOf(resumeText)
        words == wordCount(resumeText)
    IN /\ contentAnalysis.contentScore =
            Num(60 + (IF quantified THEN 15 ELSE 0) + (IF bullets >= 5 THEN 10 ELSE 0)
                   + (IF words >= 300 THEN 10 ELSE 0) - (IF words > 800 THEN 5 ELSE 0))
       /\ ~quantified =>
            /\ contentAnalysis.improvements.t = "arr"
            /\ \E i \in DOMAIN contentAnalysis.improvements.a :
                 contentAnalysis.improvements.a[i].title = "Add Quantified Achievements"

\* C5: each extract* operation returns a non-empty list
C5_ExtractedListNonEmpty ==
  extracted # NoValue => (extracted.t = "arr" /\ Len(extracted.a) > 0)

\* C6: for a non-empty resume text, analyzeResume and analyzeResumeWithJob never raise
\* and return a report
C6_AnalyzerNeverRaises ==
  (entry \in AnalyzerEntries /\ ~IsBlank(resumeText)) =>
    /\ ~raised
    /\ pc = "returned" => report # NoValue

\* C7: every operation that calls the AI service eventually completes, whether or
\* not the service responds
C7_OperationCompletes == <>Completed

\* C8: the analysis of an empty or whitespace-only resume text is rejected with an
\* error and produces no report, whatever the entry point
C8_BlankTextRejected ==
  /\ (entry \in AnalyzerEntries /\ IsBlank(resumeText) /\ pc \in {"returned", "responded"}) =>
       (report = NoValue /\ (raised \/ res.status = 400))
  /\ (route = "upload" /\ pc = "responded" /\ extractText(req.file).ok
      /\ IsBlank(cleanExtractedText(req.file.text))) =>
       (report = NoValue /\ res.status = 400)

\* C9: in every keyword report of compareWithJobDescription with m matches and s
\* missing keywords, m + s > 0, keywordScore is round(100 * m / (m + s))
C9_KeywordScoreIsMatchRatio ==
  keywordAnalysis # NoValue =>
    LET matches == keywordAnalysis.keywordMatches
        missing == keywordAnalysis.missingKeywords
        score == keywordAnalysis.keywordScore
    IN (matches.t = "arr" /\ missing.t = "arr" /\ Len(matches.a) + Len(missing.a) > 0) =>
         LET m == Len(matches.a)
             total == Len(matches.a) + Len(missing.a)
         IN /\ IsNum(score)
            /\ score.h % 2 = 0
            /\ score.h * total <= 200 * m + total
            /\ 200 * m + total < score.h * total + 2 * total

\* C10: in every keyword report of compareWithJobDescription, no keyword is in both
\* keywordMatches and missingKeywords
C10_MatchesAndMissingDisjoint ==
  keywordAnalysis # NoValue =>
    LET matches == keywordAnalysis.keywordMatches
        missing == keywordAnalysis.missingKeywords
    IN (matches.t = "arr" /\ missing.t = "arr") =>
         \A i \in DOMAIN matches.a : \A j \in DOMAIN missing.a : matches.a[i] # missing.a[j]

\* the keyword call ended on the fallback path of compareWithJobDescription: the body
\* has no choices, or the content is not JSON
KeywordFallbackKinds == {"no_choices", "prose", "embedded"}

\* C11: in the fallback keyword analysis, the lengths of keywordMatches and
\* missingKeywords of the returned report add up to the number of candidate keywords
\* classified against the resume (the deduplicated list capped at 20)
C11_FallbackListsCoverCandidates ==
  (keywordAnalysis # NoValue /\ settled.keywords \in KeywordFallbackKinds) =>
    Len(keywordAnalysis.keywordMatches.a) + Len(keywordAnalysis.missingKeywords.a)
      = Len(JobKeywordsOf[jobDescription])

\* C12: formatScore is max(0, 100 - 20*[fewer than 3 section words] - 15*[fewer than 5
\* bullet glyphs] - 10*[no email] - 10*[no phone] - 15*[fewer than 200 words]
\* - 10*[more than 800 words]); a text with no deduction scores 100 with no issues
C12_FormatScoreIsHundredMinusDeductions ==
  formatAnalysis # NoValue =>
    LET lower == toLowerCase(resumeText)
        found == Cardinality({i \in DOMAIN sections : includes(lower, sections[i])})
        deductions == (IF found < 3 THEN 20 ELSE 0)
                    + (IF bulletCountOf(resumeText) < 5 THEN 15 ELSE 0)
                    + (IF ~testEmail(resumeText) THEN 10 ELSE 0)
                    + (IF ~testPhone(resumeText) THEN 10 ELSE 0)
                    + (IF wordCount(resumeText) < 200 THEN 15 ELSE 0)
                    + (IF wordCount(resumeText) > 800 THEN 10 ELSE 0)
    IN /\ formatAnalysis.formatScore = Num(Max(0, 100 - deductions))
       /\ deductions = 0 => formatAnalysis.formatScore = Num(100) /\ formatAnalysis.issues = <<>>

\* a short text without bullets, email and phone has been scored 30 (scenario B)
C12_Witness ==
  /\ formatAnalysis # NoValue
  /\ wordCount(resumeText) < 200
  /\ bulletCountOf(resumeText) = 0
  /\ formatAnalysis.formatScore = Num(30)
  /\ Len(formatAnalysis.issues) = 5

AnsweredWithQuestions ==
  /\ entry = "generateInterviewQuestions"
  /\ pc = "returned"
  /\ aiQuestions # <<>>
  /\ \A i \in DOMAIN aiQuestions :
       aiQuestions[i].question.t = "str" /\ aiQuestions[i].tips.t = "arr"

\* the number of AI questions that mention an extracted entity
PersonalizedCount == Cardinality({i \in DOMAIN aiQuestions : personalized(aiQuestions[i], profile)})

\* C14: when the AI returned N > 0 questions of which P mention an extracted entity,
\* then P / N < 0.70 makes the result exactly the output of the fallback generator,
\* and P / N >= 0.70 keeps the AI questions: the result contains questions of the AI.
C14_GateDecidesDiscard ==
  AnsweredWithQuestions =>
    /\ 10 * PersonalizedCount < 7 * Len(aiQuestions) =>
         /\ fallbackProfile # NoValue
         /\ questions = generateFallbackInterviewQuestions(resumeText, jobTitle, fallbackProfile)
    /\ 10 * PersonalizedCount >= 7 * Len(aiQuestions) =>
         \E i \in DOMAIN aiQuestions : \E j \in DOMAIN questions :
           questions[j].question = aiQuestions[i].question


\* every extracted list is empty or holds only the default entries of its extractor
OnlyDefaultsExtracted ==
  LET only(list, defaults) == \A i \in DOMAIN list : list[i].s \in defaults
  IN /\ profile # NoValue
     /\ only(profile.jobTitles, {<<"S","o","f","t","w","a","r","e"," ","E","n","g","i","n","e","e","r">>})
     /\ only(profile.companies, {<<"p","r","e","v","i","o","u","s"," ","c","o","m","p","a","n","y">>})
     /\ only(profile.skills, {<<"p","r","o","g","r","a","m","m","i","n","g">>, <<"d","e","v","e","l","o","p","m","e","n","t">>})
     /\ only(profile.projects, {<<"N","o"," ","s","p","e","c","i","f","i","c"," ","p","r","o","j","e","c","t","s"," ","i","d","e","n","t","i","f","i","e","d">>})

\* C15: when the extracted job titles, companies, skills and projects are all empty
\* or default placeholders, generateInterviewQuestions never issues the question call
\* and returns the output of the fallback generator.
C15_DefaultsSkipQuestionCall ==
  OnlyDefaultsExtracted =>
    /\ call.purpose # "questions"
    /\ settled.questions = NoValue
    /\ pc = "returned" =>
         questions = generateFallbackInterviewQuestions(resumeText, jobTitle, fallbackProfile)


\* C16: when the AI's n < 10 questions pass the personalization gate, the returned
\* list starts with those n questions, the rest are questions of the fallback
\* generator, and the list holds at most 15 questions.
C16_ShortListsArePadded ==
  (/\ AnsweredWithQuestions
   /\ 10 * PersonalizedCount >= 7 * Len(aiQuestions)
   /\ Len(aiQuestions) < 10) =>
    /\ Len(aiQuestions) <= Len(questions)
    /\ Len(questions) <= 15
    /\ \A j \in DOMAIN questions :
         IF j <= Len(aiQuestions)
         THEN questions[j].question = aiQuestions[j].question
         ELSE \E answers \in ProfileAnswers(apiKey) :
                questions[j] \in Range(generateFallbackInterviewQuestions(
                                         resumeText, jobTitle, extractProfile(answers)))

\* C17: generateInterviewQuestions returns between 10 and 15 questions.
C17_TenToFifteenQuestions ==
  (entry = "generateInterviewQuestions" /\ pc = "returned") =>
    (10 <= Len(questions) /\ Len(questions) <= 15)


\* C18: the list an extract* operation returns holds no entry twice, whether it comes
\* from the AI's answer or from the scan of the lines.
C18_NoDuplicateEntries ==
  (entry \in ExtractEntries /\ pc = "returned") =>
    \A i \in DOMAIN extracted.a : \A j \in DOMAIN extracted.a :
      i # j => extracted.a[i] # extracted.a[j]


\* well-formed JSON arrays of strings that an answer embeds in prose
EmbeddedArrays == {Arr(<<Str(<<"R","e","a","c","t">>)>>), Arr(<<>>)}

\* C19: when the content of the AI's answer is prose around a well-formed JSON array
\* of strings, every extract* operation returns that array.
C19_EmbeddedArrayIsReturned ==
  [][\A array \in EmbeddedArrays :
       ExtractReturns(Ok(ChatResponse(ProseWithArray(JsonText(array))))) => extracted' = array]_vars


\* C20: the keywordScore of a report of analyzeResume is
\* min(85, max(40, contentScore + j)) for an integer j in -5..5, a number in [40, 85].
C20_DefaultKeywordScoreClamped ==
  (entry = "analyzeResume" /\ pc = "returned" /\ report # NoValue) =>
    /\ \E j \in -5..5 :
         report.keywordScore
           = MathMin(Num(85), MathMax(Num(40), Plus(report.contentScore, Num(j))))
    /\ IsNum(report.keywordScore)
    /\ 2 * 40 <= report.keywordScore.h /\ report.keywordScore.h <= 2 * 85


\* C21: the score the dashboard shows is min(100, atsScore + 5) when at least 80% of
\* the keywords of the analysis are matches, and atsScore otherwise (also when the
\* analysis has no keywords), where atsScore is the score the aggregator stored.
C21_ShownScoreIsAtsScorePlusBonus ==
  dashboard # NoValue =>
    LET shown(atsScore, found, missing) ==
          IF found + missing > 0 /\ 100 * found >= 80 * (found + missing)
          THEN MathMin(Num(100), Plus(atsScore, Num(5)))
          ELSE atsScore
    IN dashboard.calculatedScore
         = shown(dashboard.analysis.atsScore, Len(dashboard.analysis.keywordMatches.a),
                 Len(dashboard.analysis.missingKeywords.a))


\* the stem of a single-word keyword: lower-cased, one trailing "s", "ing" or "ed"
\* removed
StemOf(keyword) ==
  LET lower == toLowerWord(keyword)
      without(k) == SubSeq(lower, 1, Len(lower) - k)
  IN IF Len(lower) >= 3 /\ SubSeq(lower, Len(lower) - 2, Len(lower)) = <<"i","n","g">> THEN without(3)
     ELSE IF Len(lower) >= 2 /\ SubSeq(lower, Len(lower) - 1, Len(lower)) = <<"e","d">> THEN without(2)
     ELSE IF Len(lower) >= 1 /\ lower[Len(lower)] = "s" THEN without(1)
     ELSE lower

\* the words of the resume the dashboard shows, lower-cased
ShownWords ==
  UNION {Range(SplitNonWord(toLowerWord(dashboard.originalText[i].w))) :
           i \in DOMAIN dashboard.originalText}

\* C22: a missing single-word keyword is marked partial exactly when its stem has at
\* least 4 characters and a word of the resume begins with the stem; every partial
\* keyword is a missing keyword, and the analysis shown is the stored one.
C22_PartialIffStemBeginsWord ==
  dashboard # NoValue =>
    /\ \A i \in DOMAIN dashboard.analysis.missingKeywords.a :
         LET keyword == dashboard.analysis.missingKeywords.a[i]
         IN (\A j \in DOMAIN keyword.s : keyword.s[j] # " ") =>
              (keyword \in Range(dashboard.partialMatches)
                 <=> /\ Len(StemOf(keyword.s)) >= 4
                     /\ \E word \in ShownWords : IsPrefix(StemOf(keyword.s), word))
    /\ Range(dashboard.partialMatches) \subseteq Range(dashboard.analysis.missingKeywords.a)
    /\ \E id \in DOMAIN resumes : dashboard.analysis = getAnalysis(analyses, id).row


ExtractorDefaults ==
  {<<"S","o","f","t","w","a","r","e"," ","E","n","g","i","n","e","e","r">>, <<"p","r","e","v","i","o","u","s"," ","c","o","m","p","a","n","y">>, <<"p","r","o","g","r","a","m","m","i","n","g">>, <<"d","e","v","e","l","o","p","m","e","n","t">>,
   <<"N","o"," ","s","p","e","c","i","f","i","c"," ","p","r","o","j","e","c","t","s"," ","i","d","e","n","t","i","f","i","e","d">>}

\* C24: a question of the AI counts as personalized in the gate only if its text
\* contains an extracted company, job title, skill or project name that is not one
\* of the extractors' defaults
C24_DefaultsNeverPersonalize ==
  (entry = "generateInterviewQuestions" /\ aiQuestions # <<>>) =>
    \A i \in DOMAIN aiQuestions :
      (aiQuestions[i].question.t = "str" /\ personalized(aiQuestions[i], profile)) =>
        \E entity \in Range(profile.companies) \cup Range(profile.jobTitles)
                      \cup Range(profile.skills)
                      \cup {Str(projectName(project.s)) : project \in Range(profile.projects)} :
          /\ entity.s \notin ExtractorDefaults
          /\ IsSubstr(toLowerWord(entity.s), toLowerWord(aiQuestions[i].question.s))


\* C25: every result of the fallback generator holds at most 10 questions, among them
\* the two fixed "Problem Solving" questions and the question "Why are you
\* interested in this ... position?"
C25_FallbackKeepsFixedQuestions ==
  (entry = "generateInterviewQuestions" /\ pc = "returned" /\ fallbackProfile # NoValue) =>
    /\ Len(questions) <= 10
    /\ \E i \in DOMAIN questions :
         questions[i].question.parts =
           <<"Walk me through how you would debug a performance issue in a web application.">>
    /\ \E i \in DOMAIN questions :
         questions[i].question.parts =
           <<"How would you approach learning a new technology or framework?">>
    /\ \E i \in DOMAIN questions :
         /\ Len(questions[i].question.parts) = 3
         /\ questions[i].question.parts[1] = "Why are you interested in this "
         /\ questions[i].question.parts[3] = " position?"


\* C26: when the content call is answered with a JSON object whose contentScore is a
\* number s, analyzeResumeContent reports s clamped to [0, 100] (0 for s = 0), and
\* an improvements or sectionCompleteness the answer lacks as the empty list
C26_NumericContentScoreIsClamped ==
  [][\A value \in {v \in ContentValues : v.t = "obj"} :
       (ContentReturns(Ok(ChatResponse(JsonText(value)))) /\ value.o.contentScore.t = "num") =>
         /\ contentAnalysis'.contentScore
              = NumHalves(Max(0, Min(200, value.o.contentScore.h)))
         /\ value.o.improvements = Undef => contentAnalysis'.improvements = Arr(<<>>)
         /\ value.o.sectionCompleteness = Undef =>
              contentAnalysis'.sectionCompleteness = Arr(<<>>)]_vars


\* C27: when two requests (/analyze or /fresh-analysis) for the same resume have both
\* completed, however their handlers interleaved, at most one analysis of that resume
\* is stored
C27_OneAnalysisPerResume ==
  (pc = "responded" /\ other # NoValue /\ other.pc = "done") =>
    Len(SelectSeq(analyses, LAMBDA row : row.resumeId = 1)) <= 1


\* C28: when POST /api/resumes/:id/analyze ends with an error response, the analysis
\* that the handler found stored for the resume is still stored, unchanged
C28_ErrorKeepsStoredAnalysis ==
  (route = "analyze" /\ pc = "responded" /\ res.status >= 400 /\ Truthy(existingAnalysis)) =>
    getAnalysis(analyses, req.id) = existingAnalysis


\* C29: when analyzeResumeWithJob found at least one missing keyword, the analysis
\* that /analyze saves and returns holds the high-priority improvement "Add Missing
\* Keywords", whether or not an analysis was stored before
C29_MissingKeywordsAdviceIsSaved ==
  LET advised(row) ==
        /\ row.improvements.t = "arr"
        /\ \E i \in DOMAIN row.improvements.a :
             /\ "title" \in DOMAIN row.improvements.a[i]
             /\ row.improvements.a[i].title = "Add Missing Keywords"
             /\ row.improvements.a[i].priority = "high"
  IN (/\ route = "analyze"
      /\ pc = "responded"
      /\ res.status = 200
      /\ report.missingKeywords.t = "arr"
      /\ Len(report.missingKeywords.a) > 0) =>
       /\ advised(res.analysis)
       /\ getAnalysis(analyses, req.id) = [t |-> "row", row |-> res.analysis]


\* C30: every formatScore that analyzeFormat returns is a multiple of 5 and at
\* least 30
C30_FormatScoreMultipleOfFiveFromThirty ==
  LET granular(analysis) ==
        /\ IsIntIn(analysis.formatScore, 30, 100)
        /\ (analysis.formatScore.h \div 2) % 5 = 0
  IN /\ formatAnalysis # NoValue => granular(formatAnalysis)
     /\ \A i \in DOMAIN formatCalls : granular(formatCalls[i])

\* analyzeFormat has returned the score 30: every deduction applied to a short text
C30_Witness ==
  /\ formatAnalysis # NoValue
  /\ formatAnalysis.formatScore = Num(30)
  /\ Len(formatAnalysis.issues) = 5

====
